---- MODULE Spec2Model ----
(***************************************************************************)
(* A model of autodiff.js: the reusable-buffer pool behind the Taylor      *)
(* series kernels, the degree setting, the compiled evaluators that run    *)
(* inside one tracked scope, the tokenizer and Pratt parser, the compile   *)
(* entry points, and the add/subtract kernel operations.                   *)
(***************************************************************************)
EXTENDS Integers, Sequences, FiniteSets, TLC

(***************************************************************************)
(* Bounds of the model.                                                    *)
(***************************************************************************)
\* buffers one pool may ever construct
MaxBufs == 3
\* allocations recorded inside one tracked scope
MaxTracked == 3
\* degrees handed to setNumberOfDerivativesToCompute: 0..MaxDegree
MaxDegree == 1

(***************************************************************************)
(* Program constants.                                                      *)
(***************************************************************************)
\* let globalDegree = 2
GlobalDegreeDefault == 2
\* defaultContext = new AutodiffContext({ numDerivativesToCompute: 5 })
ContextDegreeDefault == 5

Ids == 1..MaxBufs
Kernels == {"Series", "Series2D"}
Degrees == 0..MaxDegree

VARIABLES
  kernel,      \* which kernel's pool is observed: seriesPool or series2DPool
  degree,      \* globalDegree (Series) / _numDerivativesToCompute (Series2D)
  pool,        \* the Pool object and the buffers it has constructed
  scopes,      \* trackAndReleaseAllocations calls currently on the stack
  returned,    \* history of the scope that has just returned: <<allocations it made,
               \*   those of its buffers not on the free list, one was recorded twice>>
  handed,      \* history: <<buffer, its length, degree>> of the allocate just made
  evalResult,  \* history: <<length of the vector, degree>> of the evaluator call just made
  src,         \* the source string, as the pieces the token regex splits it into
  out,         \* the function applied to src and what it returned or threw
  calc         \* a series operand, a scalar operand, and the kernel function
               \*   applied to them with the coefficients it returned

poolVars == <<kernel, degree, pool, scopes, returned, handed, evalResult>>
parserVars == <<src, out>>
nonPoolVars == <<src, out, calc>>
nonParserVars == <<kernel, degree, pool, scopes, returned, handed, evalResult, calc>>
vars == <<kernel, degree, pool, scopes, returned, handed, evalResult, src, out, calc>>

(***************************************************************************)
(* Helpers on sequences.                                                   *)
(***************************************************************************)
Range(s) == {s[i] : i \in 1..Len(s)}
Count(s, x) == Cardinality({i \in 1..Len(s) : s[i] = x})
Front(s) == SubSeq(s, 1, Len(s) - 1)

(***************************************************************************)
(* Series / Series2D constructors: the length of the coefficient array.    *)
(***************************************************************************)
\* Series: while (coefficients.length <= globalDegree) push(0)
\* Series2D: two nested loops 0..globalDegree
ShapeOf(k, n) == IF k = "Series" THEN n + 1 ELSE (n + 1) * (n + 1)

(***************************************************************************)
(* The Pool.  A pool state is a record                                     *)
(*   free      _free, the last element is the one pop() takes              *)
(*   tracking  _trackedAllocations # null                                  *)
(*   tracked   _trackedAllocations when it is an array                     *)
(*   shape     coefficients.length of each constructed buffer, 0 = none    *)
(*   side      Series2D.size of each buffer (degree + 1 when constructed)  *)
(*   isFree    the isFree flag of each buffer                              *)
(*   owners    history: how many callers hold the buffer                   *)
(*   forgotten history: buffers dropped by forgetFreeElements              *)
(*   inScope   history: the scope opened last has not ended yet            *)
(*   log       history: allocations made in that scope so far              *)
(*   ok        FALSE once a construction exceeded MaxBufs                  *)
(*   res       the buffer the last allocate returned                       *)
(***************************************************************************)
EmptyPool ==
  [free |-> <<>>, tracking |-> FALSE, tracked |-> <<>>,
   shape |-> [b \in Ids |-> 0], side |-> [b \in Ids |-> 0],
   isFree |-> [b \in Ids |-> FALSE],
   owners |-> [b \in Ids |-> 0], forgotten |-> {},
   inScope |-> FALSE, log |-> <<>>, ok |-> TRUE, res |-> 0]

Constructed(P) == {b \in Ids : P.shape[b] # 0}

\* _newT(): a fresh object of the shape of the degree in force
NewT(P, k, n) ==
  IF Constructed(P) = Ids
  THEN [P EXCEPT !.ok = FALSE, !.res = 0]
  ELSE LET b == CHOOSE c \in Ids \ Constructed(P) :
                  \A d \in Ids \ Constructed(P) : c <= d
       IN [P EXCEPT !.shape[b] = ShapeOf(k, n), !.side[b] = n + 1,
                    !.isFree[b] = FALSE, !.res = b]

\* a pool that forgets to record the allocation
TrackStepNever(P) == P

\* if (this._trackedAllocations) this._trackedAllocations.push(res)
TrackStep(P) ==
  IF P.tracking THEN [P EXCEPT !.tracked = Append(@, P.res)] ELSE P

\* an allocate that leaves the buffer it hands out on the free list
PoolAllocateWithoutPop(P, k, n) ==
  LET P1 == IF Len(P.free) > 0
            THEN [P EXCEPT !.res = P.free[Len(P.free)]]
            ELSE NewT(P, k, n)
      P2 == TrackStep(P1)
  IN IF ~P1.ok THEN P1
     ELSE [P2 EXCEPT !.isFree[P1.res] = FALSE,
                     !.owners[P1.res] = @ + 1,
                     !.log = IF P.inScope THEN Append(@, P1.res) ELSE @]

\* Pool.allocate
PoolAllocate(P, k, n) ==
  LET P1 == IF Len(P.free) > 0
            THEN [P EXCEPT !.res = P.free[Len(P.free)], !.free = Front(P.free)]
            ELSE NewT(P, k, n)
      P2 == TrackStep(P1)
  IN IF ~P1.ok THEN P1
     ELSE [P2 EXCEPT !.isFree[P1.res] = FALSE,
                     !.owners[P1.res] = @ + 1,
                     !.log = IF P.inScope THEN Append(@, P1.res) ELSE @]

\* Pool.markFree
PoolMarkFree(P, b) ==
  [P EXCEPT !.isFree[b] = TRUE,
            !.free = Append(@, b),
            !.owners[b] = IF @ > 0 THEN @ - 1 ELSE 0]

\* a release loop without the isFree test
ReleaseStepUnchecked(P, b) == PoolMarkFree(P, b)

\* coefficients[i] = v on buffer b: a JavaScript array grows when i is past its end
WriteCoefficient(P, b, i) ==
  [P EXCEPT !.shape[b] = IF i + 1 > @ THEN i + 1 ELSE @]

\* variableEvaluatedAtPoint / xEvaluatedAtPoint: allocate(), coefficients[0] = value,
\* coefficients[1] = 1 (Series2D.set(1, 0, 1) writes index 0 * size + 1)
VariableAtPoint(P, k, n) ==
  LET P1 == PoolAllocate(P, k, n)
  IN IF P1.ok THEN WriteCoefficient(WriteCoefficient(P1, P1.res, 0), P1.res, 1) ELSE P1

\* one iteration of the release loop of trackAndReleaseAllocations
ReleaseStep(P, b) ==
  IF ~P.isFree[b] THEN PoolMarkFree(P, b) ELSE P

\* for (i = 0; i < tracked.length; i++) if (!tracked[i].isFree) markFree(tracked[i])
RECURSIVE ReleaseFrom(_, _)
ReleaseFrom(P, i) ==
  IF i > Len(P.tracked) THEN P
  ELSE ReleaseFrom(ReleaseStep(P, P.tracked[i]), i + 1)

\* this._trackedAllocations = []
PoolBeginTracking(P) ==
  [P EXCEPT !.tracking = TRUE, !.tracked = <<>>, !.inScope = TRUE, !.log = <<>>]

\* what is recorded of a scope when it returns
ScopeSummary(log, P) ==
  <<Len(log),
    {b \in Range(log) : Count(P.free, b) = 0},
    \E i, j \in 1..Len(log) : i < j /\ log[i] = log[j]>>

\* the part of trackAndReleaseAllocations after callback() has returned
PoolEndTracking(P) ==
  [ReleaseFrom(P, 1) EXCEPT !.tracking = FALSE, !.tracked = <<>>,
                            !.inScope = FALSE, !.log = <<>>]

\* Pool.forgetFreeElements: drops the free buffers
PoolForgetFreeElements(P) ==
  [P EXCEPT !.free = <<>>, !.forgotten = @ \cup Range(P.free)]

(***************************************************************************)
(* Initial state: a fresh pool, the default degree of the kernel.          *)
(***************************************************************************)
PoolInit ==
  /\ kernel \in Kernels
  /\ degree = IF kernel = "Series" THEN GlobalDegreeDefault ELSE ContextDegreeDefault
  /\ pool = EmptyPool
  /\ scopes = 0
  /\ returned = <<>>
  /\ handed = <<>>
  /\ evalResult = <<>>

\* no source is being compiled
ParserIdle ==
  /\ src = <<>>
  /\ out = <<>>

\* no kernel function is being applied
KernelIdle == calc = <<>>

Init ==
  /\ PoolInit
  /\ ParserIdle
  /\ KernelIdle

\* Pool.allocate called by a kernel operation or directly
Allocate ==
  /\ Len(pool.log) < MaxTracked
  /\ LET P == PoolAllocate(pool, kernel, degree) IN
       /\ P.ok
       /\ pool' = P
       /\ handed' = <<P.res, P.shape[P.res], degree>>
  /\ returned' = <<>>
  /\ evalResult' = <<>>
  /\ UNCHANGED <<kernel, degree, scopes>>
  /\ UNCHANGED nonPoolVars

\* variableEvaluatedAtPoint(value) / xEvaluatedAtPoint(value) called directly
VariableEvaluatedAtPoint ==
  /\ Len(pool.log) < MaxTracked
  /\ LET P == VariableAtPoint(pool, kernel, degree) IN
       /\ P.ok
       /\ pool' = P
  /\ handed' = <<>>
  /\ returned' = <<>>
  /\ evalResult' = <<>>
  /\ UNCHANGED <<kernel, degree, scopes>>
  /\ UNCHANGED nonPoolVars

\* Pool.allocateCopy(s) for a constructed buffer s: allocate(), then
\* _copyT(copy, s), which writes only the coefficients of the copy
AllocateCopy ==
  /\ \E s \in Ids : s \in Constructed(pool)
  /\ Len(pool.log) < MaxTracked
  /\ LET P == PoolAllocate(pool, kernel, degree) IN
       /\ P.ok
       /\ pool' = [P EXCEPT !.isFree[P.res] = FALSE]
       /\ handed' = <<P.res, P.shape[P.res], degree>>
  /\ returned' = <<>>
  /\ evalResult' = <<>>
  /\ UNCHANGED <<kernel, degree, scopes>>
  /\ UNCHANGED nonPoolVars

\* Pool.markFree(series) / Series.freeToPool(), by the holder of the buffer
MarkFree(b) ==
  /\ pool.owners[b] = 1
  /\ pool' = PoolMarkFree(pool, b)
  /\ returned' = <<>>
  /\ handed' = <<>>
  /\ evalResult' = <<>>
  /\ UNCHANGED <<kernel, degree, scopes>>
  /\ UNCHANGED nonPoolVars

\* trackAndReleaseAllocations, up to the call of callback(); one scope at a
\* time is the contract of the pool (an evaluator called inside an open scope
\* is the nested case, see Evaluate)
BeginScope ==
  /\ scopes = 0
  /\ pool' = PoolBeginTracking(pool)
  /\ scopes' = scopes + 1
  /\ returned' = <<>>
  /\ handed' = <<>>
  /\ evalResult' = <<>>
  /\ UNCHANGED <<kernel, degree>>
  /\ UNCHANGED nonPoolVars

\* trackAndReleaseAllocations, from the return of callback(): the release loop;
\* when an inner scope has set _trackedAllocations to null, reading its length
\* throws, and the exception unwinds every enclosing call
EndScope ==
  /\ scopes > 0
  /\ IF pool.tracking
     THEN /\ pool' = PoolEndTracking(pool)
          /\ scopes' = scopes - 1
          /\ returned' = ScopeSummary(pool.log, pool')
     ELSE /\ pool' = [pool EXCEPT !.inScope = FALSE, !.log = <<>>]
          /\ scopes' = 0
          /\ returned' = <<>>
  /\ handed' = <<>>
  /\ evalResult' = <<>>
  /\ UNCHANGED <<kernel, degree>>
  /\ UNCHANGED nonPoolVars

\* setNumberOfDerivativesToCompute of the Series kernel: globalDegree = degree
SetNumberOfDerivativesToCompute(n) ==
  /\ kernel = "Series"
  /\ degree' = n
  /\ returned' = <<>>
  /\ handed' = <<>>
  /\ evalResult' = <<>>
  /\ UNCHANGED <<kernel, pool, scopes>>
  /\ UNCHANGED nonPoolVars

\* AutodiffContext.setNumberOfDerivativesToCompute
ContextSetNumberOfDerivativesToCompute(n) ==
  /\ kernel = "Series2D"
  /\ pool' = IF n # degree THEN PoolForgetFreeElements(pool) ELSE pool
  /\ degree' = n
  /\ returned' = <<>>
  /\ handed' = <<>>
  /\ evalResult' = <<>>
  /\ UNCHANGED <<kernel, scopes>>
  /\ UNCHANGED nonPoolVars

(***************************************************************************)
(* Compiled evaluators.  The generated code is a nest of kernel calls; for *)
(* the pool it is a sequence of steps: -1 is variableEvaluatedAtPoint, 0   *)
(* is the allocate of a constant or of an operation's result, k > 0 is     *)
(* freeToPool() of the k-th buffer the call allocated; res is the          *)
(* allocation whose buffer is passed to toValueAndDerivatives.             *)
(***************************************************************************)
EvalPrograms ==
  { [ops |-> <<-1>>, res |-> 1],              \* x
    [ops |-> <<-1, 0>>, res |-> 2],           \* x + 1
    [ops |-> <<-1, 0, 0, 3>>, res |-> 2],     \* sin(x)
    [ops |-> <<0, 0, 2>>, res |-> 1],         \* sin(2)
    [ops |-> <<0, 0, 2, 0>>, res |-> 3] }     \* sin(2) + 1

\* the state after the first i steps of ops, and the buffers allocated
RECURSIVE RunOps(_, _, _, _, _, _)
RunOps(P, allocs, ops, i, k, n) ==
  IF i > Len(ops) \/ ~P.ok THEN [p |-> P, allocs |-> allocs]
  ELSE IF ops[i] <= 0
       THEN LET P1 == IF ops[i] = 0 THEN PoolAllocate(P, k, n)
                      ELSE VariableAtPoint(P, k, n)
            IN RunOps(P1, Append(allocs, P1.res), ops, i + 1, k, n)
       ELSE RunOps(PoolMarkFree(P, allocs[ops[i]]), allocs, ops, i + 1, k, n)

\* toValueAndDerivatives: Series, one entry per element of coefficients;
\* Series2D, one entry per cell of the size * size grid
ResultLength(P, b, k) ==
  IF k = "Series" THEN P.shape[b] ELSE P.side[b] * P.side[b]

\* the closure returned by build...AutodiffFunctionForExpression:
\* pool.trackAndReleaseAllocations(() => { res = wrappedFunc(x, api) })
EvaluatorCall(P, prog, k, n) ==
  LET run == RunOps(PoolBeginTracking(P), <<>>, prog.ops, 1, k, n)
      b == run.allocs[prog.res]
  IN [p |-> IF run.p.ok THEN PoolEndTracking(run.p) ELSE run.p,
      log |-> run.p.log,
      len |-> IF run.p.ok THEN ResultLength(run.p, b, k) ELSE 0]

Evaluate(prog) ==
  /\ LET e == EvaluatorCall(pool, prog, kernel, degree) IN
       /\ e.p.ok
       /\ pool' = e.p
       /\ returned' = ScopeSummary(e.log, e.p)
       /\ evalResult' = <<e.len, degree>>
  /\ handed' = <<>>
  /\ UNCHANGED <<kernel, degree, scopes>>
  /\ UNCHANGED nonPoolVars

Next ==
  \/ Allocate
  \/ AllocateCopy
  \/ VariableEvaluatedAtPoint
  \/ \E b \in Ids : MarkFree(b)
  \/ BeginScope
  \/ EndScope
  \/ \E prog \in EvalPrograms : Evaluate(prog)

\* the pool and the evaluators at a constant degree
Spec == Init /\ [][Next]_vars

NextDegree ==
  \/ Allocate
  \/ AllocateCopy
  \/ VariableEvaluatedAtPoint
  \/ \E b \in Ids : MarkFree(b)
  \/ \E n \in Degrees : SetNumberOfDerivativesToCompute(n)
  \/ \E n \in Degrees : ContextSetNumberOfDerivativesToCompute(n)

\* a client that allocates, frees and sets the degree, outside any scope
SpecDegree == Init /\ [][NextDegree]_vars

NextEval ==
  \/ \E prog \in EvalPrograms : Evaluate(prog)
  \/ \E n \in Degrees : SetNumberOfDerivativesToCompute(n)
  \/ \E n \in Degrees : ContextSetNumberOfDerivativesToCompute(n)

\* a client that only sets the degree and calls compiled functions
SpecEval == Init /\ [][NextEval]_vars

(***************************************************************************)
(* Properties of the pool.                                                 *)
(***************************************************************************)
\* C1: every constructed buffer is on the free list exactly once or held by
\* exactly one owner, never both; allocate never hands out a buffer that is
\* already held (no buffer has two owners, none is twice on the free list),
\* also after a scope in which a buffer was recorded twice by the tracker.
PoolOwnership ==
  \A b \in Ids :
    /\ pool.owners[b] <= 1
    /\ Count(pool.free, b) <= 1
    /\ Count(pool.free, b) + pool.owners[b] =
         (IF b \in Constructed(pool) THEN 1 ELSE 0)
    /\ (handed # <<>> /\ handed[1] = b) => pool.owners[b] = 1

\* a scope has returned in which one buffer was allocated, freed and allocated again
PoolOwnershipWitness ==
  /\ returned # <<>>
  /\ returned[3]
  /\ Len(pool.free) >= 2

AllocateShapeOfDegree ==
  handed # <<>> => handed[2] = ShapeOf(kernel, handed[3])

\* C4: a compiled function returns a vector whose length is that of the
\* degree in force at the call: n + 1 entries for one variable, (n + 1) * (n + 1)
\* for two.
EvaluatorLengthOfDegree ==
  evalResult # <<>> => evalResult[1] = ShapeOf(kernel, evalResult[2])

(***************************************************************************)
(* Source text.  A source string is modelled by the pieces that            *)
(* input.split(tokenRegex) cuts it into: the texts the regex matches and   *)
(* the residues between them that it does not match.                       *)
(***************************************************************************)
\* longest source given to the tokenizer, in pieces
MaxTokenizeLen == 4
\* longest source given to the parser and the compile functions, in pieces
MaxSrcLen == 5

\* the pieces used: two identifiers, a literal, operators, parentheses,
\* white space, and a character the regex does not match
Lexemes == {"x", "sin", "2", "+", "-", "*", "^", "(", ")", " ", "#"}
\* the pieces of sources made of tokens only
TokenLexemes == {"x", "sin", "2", "+", "-", "*", "^", "(", ")"}
\* the pieces of sources with white space and unmatched characters
TextLexemes == {"x", "sin", "+", "(", ")", " ", "#"}

\* part[0]
FirstChar(part) == IF part = "sin" THEN "s" ELSE part

LetterChars == {"x", "s"}
DigitChars == {"2"}
SpaceChars == {" "}
OperatorChars == {"+", "-", "*", "/", "^"}
ParenChars == {"(", ")"}

\* a piece matched by tokenRegex (odd index of the split) rather than a residue
IsMatch(part) ==
  FirstChar(part) \in LetterChars \cup DigitChars \cup SpaceChars
                       \cup OperatorChars \cup ParenChars

\* the regex is greedy: two pieces of these kinds are never adjacent, the
\* split would have produced one piece
Merges(a, b) ==
  \/ FirstChar(a) \in LetterChars /\ FirstChar(b) \in LetterChars
  \/ FirstChar(a) \in DigitChars /\ FirstChar(b) \in DigitChars
  \/ FirstChar(a) \in SpaceChars /\ FirstChar(b) \in SpaceChars
  \/ ~IsMatch(a) /\ ~IsMatch(b)

SourcesOver(lexemes, n) ==
  {s \in UNION {[1..k -> lexemes] : k \in 0..n} :
     \A i \in 1..(Len(s) - 1) : ~Merges(s[i], s[i + 1])}

TokenizerSources == SourcesOver(Lexemes, MaxTokenizeLen)
\* the pieces of sources with subtractions and divisions
QuotientLexemes == {"x", "2", "-", "/"}
ParserSources ==
  SourcesOver(TokenLexemes, MaxSrcLen) \cup SourcesOver(TextLexemes, MaxSrcLen)
    \cup SourcesOver(QuotientLexemes, MaxSrcLen)

\* String.prototype.trim
RECURSIVE TrimLeft(_)
TrimLeft(s) ==
  IF s # <<>> /\ FirstChar(Head(s)) \in SpaceChars THEN TrimLeft(Tail(s)) ELSE s
RECURSIVE TrimRight(_)
TrimRight(s) ==
  IF s # <<>> /\ FirstChar(s[Len(s)]) \in SpaceChars THEN TrimRight(Front(s)) ELSE s
Trim(s) == TrimRight(TrimLeft(s))

(***************************************************************************)
(* Values: null, strings (tuples of their parts), thrown errors.           *)
(***************************************************************************)
Null == <<"null">>
EmptyString == <<>>
\* JavaScript truthiness of a string or null
Truthy(v) == v # Null /\ v # EmptyString

\* ErrorMsg
GenericFailure == <<"Couldn't parse that expression">>
EmptyParens == <<"The expression contains an empty set of parentheses like (); this is not valid syntax">>
MissingRightParen == <<"The expression is missing a right parenthesis">>
NonIdentifierFunctionName == <<"It looks like you're trying to call something that isn't a function">>
InvalidArgument(functionName) ==
  <<"Couldn't parse an argument to the function ", functionName,
    ". Perhaps you're missing a closing parenthesis.">>
OperatorMissingRightOperand(operator) == <<"We expected something after the operator ", operator>>
InvalidCharacter(c) == <<c, " isn't a valid character">>

\* throw new ParserError(message); any other exception has name # 'ParserError'
ThrowParserError(message) == [st |-> "throw", name |-> "ParserError", message |-> message]
ThrowError(name, message) == [st |-> "throw", name |-> name, message |-> message]
IsParserError(err) == err.name = "ParserError"

(***************************************************************************)
(* Tokenizer.                                                              *)
(***************************************************************************)
\* getFunctionName of series.sqrt, exp, log, sin, cos, tan, asin, acos, atan
SupportedFunctions ==
  {"sqrt", "exp", "log", "sin", "cos", "tan", "asin", "acos", "atan"}

Token(type, value) == [type |-> type, value |-> value]
EOFToken == Token("EOF", "null")

StartsExpression(token) ==
  \/ token.type = "IDENTIFIER"
  \/ token.type = "INT_LITERAL"
  \/ token.type = "FLOAT_LITERAL"
  \/ token.type = "LEFT_PAREN"

\* an endsExpression without the special case for function names
EndsExpressionAnyIdentifier(token) ==
  \/ token.type = "IDENTIFIER"
  \/ token.type = "INT_LITERAL"
  \/ token.type = "FLOAT_LITERAL"
  \/ token.type = "RIGHT_PAREN"

\* an endsExpression for which no identifier ends an expression
EndsExpressionNoIdentifier(token) ==
  \/ token.type = "INT_LITERAL"
  \/ token.type = "FLOAT_LITERAL"
  \/ token.type = "RIGHT_PAREN"

EndsExpression(token) ==
  LET isSpecialFunction ==
        token.type = "IDENTIFIER" /\ token.value \in SupportedFunctions
  IN \/ ~isSpecialFunction /\ token.type = "IDENTIFIER"
     \/ token.type = "INT_LITERAL"
     \/ token.type = "FLOAT_LITERAL"
     \/ token.type = "RIGHT_PAREN"

RECURSIVE InsertFrom(_, _, _)
InsertFrom(tokens, i, result) ==
  IF i > Len(tokens) THEN result
  ELSE IF result = <<>> THEN InsertFrom(tokens, i + 1, <<tokens[i]>>)
  ELSE LET prevToken == result[Len(result)]
           nextToken == tokens[i]
           withStar == IF EndsExpression(prevToken) /\ StartsExpression(nextToken)
                       THEN Append(result, Token("MULTIPLY", "*"))
                       ELSE result
       IN InsertFrom(tokens, i + 1, Append(withStar, nextToken))

InsertImplicitMultiplications(tokens) == InsertFrom(tokens, 1, <<>>)

OperatorType(c) ==
  IF c = "-" THEN "MINUS"
  ELSE IF c = "+" THEN "PLUS"
  ELSE IF c = "/" THEN "DIVIDE"
  ELSE IF c = "*" THEN "MULTIPLY"
  ELSE IF c = "^" THEN "POW"
  ELSE "NONE"

\* the loop of tokenize over the pieces
RECURSIVE ScanParts(_, _, _)
ScanParts(parts, i, tokens) ==
  IF i > Len(parts) THEN [st |-> "ok", tokens |-> tokens]
  ELSE LET part == parts[i]
           c == FirstChar(part)
       IN IF ~IsMatch(part)
          THEN ThrowParserError(InvalidCharacter(c))
          ELSE IF c \in DigitChars \cup {"."}
          THEN ScanParts(parts, i + 1, Append(tokens,
                 Token(IF c = "." THEN "INT_LITERAL" ELSE "FLOAT_LITERAL", part)))
          ELSE IF c \in SpaceChars
          THEN ScanParts(parts, i + 1, tokens)
          ELSE IF c \in LetterChars
          THEN ScanParts(parts, i + 1, Append(tokens, Token("IDENTIFIER", part)))
          ELSE IF c \in OperatorChars
          THEN ScanParts(parts, i + 1, Append(tokens, Token(OperatorType(c), part)))
          ELSE IF c \in ParenChars
          THEN ScanParts(parts, i + 1, Append(tokens,
                 Token(IF c = "(" THEN "LEFT_PAREN" ELSE "RIGHT_PAREN", part)))
          ELSE ThrowParserError(InvalidCharacter(c))

\* tokenize(input)
Tokenize(input) ==
  LET scanned == ScanParts(input, 1, <<>>)
  IN IF scanned.st = "throw" THEN scanned
     ELSE [st |-> "ok", tokens |-> InsertImplicitMultiplications(scanned.tokens)]

(***************************************************************************)
(* Pratt parser.  A node is a tuple whose first element is its NodeType:   *)
(*   <<"LITERAL", token>>, <<"IDENTIFIER", token>>,                        *)
(*   <<"PREFIX_OPERATOR", token, argument>>,                               *)
(*   <<"BINARY_OPERATOR", token, firstArgument, secondArgument>>,          *)
(*   <<"GROUP", argument>>, <<"FUNCTION_CALL", function, argument>>.       *)
(***************************************************************************)
\* enum Precedence
LOWEST == 0
SUM == 1
PRODUCT == 2
EXPONENT == 3
PREFIX == 4
CALL == 5

\* a parser step: the node it returned (Null for null) and the stream
\* position after it, or the exception it threw
Returned(node, pos) ==
  [st |-> "ok", node |-> node, pos |-> pos, name |-> "", message |-> EmptyString]
Threw(name, message) ==
  [st |-> "throw", node |-> Null, pos |-> 0, name |-> name, message |-> message]

\* ParserContext.peek
Peek(tokens, pos) == IF pos <= Len(tokens) THEN tokens[pos] ELSE EOFToken
\* ParserContext.hasMoreTokens
HasMoreTokens(tokens, pos) == pos <= Len(tokens)

\* the token types parseExpression registers a prefix parselet for
PrefixTypes ==
  {"INT_LITERAL", "FLOAT_LITERAL", "IDENTIFIER", "PLUS", "MINUS", "LEFT_PAREN"}
\* the token types parseExpression registers an infix parselet for
InfixTypes == {"PLUS", "MINUS", "MULTIPLY", "DIVIDE", "POW", "LEFT_PAREN"}

\* a registration in which '^' binds no tighter than '+'
InfixPrecedenceFlat(type) ==
  IF type \in {"PLUS", "MINUS", "POW"} THEN SUM
  ELSE IF type \in {"MULTIPLY", "DIVIDE"} THEN PRODUCT
  ELSE IF type = "LEFT_PAREN" THEN CALL
  ELSE LOWEST

\* the precedences parseExpression registers
InfixPrecedence(type) ==
  IF type \in {"PLUS", "MINUS"} THEN SUM
  ELSE IF type \in {"MULTIPLY", "DIVIDE"} THEN PRODUCT
  ELSE IF type = "POW" THEN EXPONENT
  ELSE IF type = "LEFT_PAREN" THEN CALL
  ELSE LOWEST

\* ExpressionParser.peekTokenPrecedence
PeekTokenPrecedence(tokens, pos) == InfixPrecedence(Peek(tokens, pos).type)

\* node.token of a node that has one; GROUP and FUNCTION_CALL have token: null
HasToken(node) == node[1] \notin {"GROUP", "FUNCTION_CALL"}

RECURSIVE ParserParseExpression(_, _, _)
RECURSIVE PrefixParse(_, _, _)
RECURSIVE InfixParse(_, _, _, _)
RECURSIVE InfixLoop(_, _, _, _)

\* ExpressionParser.parseExpression(precedence), the stream at pos
ParserParseExpression(tokens, pos, precedence) ==
  LET token == Peek(tokens, pos)
  IN IF token.type \notin PrefixTypes
     THEN Returned(Null, pos)
     ELSE LET left == PrefixParse(tokens, pos + 1, token)
          IN IF left.st = "throw" THEN left
             ELSE InfixLoop(tokens, left.pos, precedence, left.node)

\* a loop that also goes on at equal precedence
InfixLoopInclusive(tokens, pos, precedence, left) ==
  IF precedence <= PeekTokenPrecedence(tokens, pos)
  THEN LET token == Peek(tokens, pos)
       IN IF token.type \notin InfixTypes
          THEN Threw("Error", <<"Missing parselet or infix parselet">>)
          ELSE LET next == InfixParse(tokens, pos + 1, left, token)
               IN IF next.st = "throw" THEN next
                  ELSE InfixLoop(tokens, next.pos, precedence, next.node)
  ELSE Returned(left, pos)

\* the while loop of ExpressionParser.parseExpression
InfixLoop(tokens, pos, precedence, left) ==
  IF precedence < PeekTokenPrecedence(tokens, pos)
  THEN LET token == Peek(tokens, pos)
       IN IF token.type \notin InfixTypes
          THEN Threw("Error", <<"Missing parselet or infix parselet">>)
          ELSE LET next == InfixParse(tokens, pos + 1, left, token)
               IN IF next.st = "throw" THEN next
                  ELSE InfixLoop(tokens, next.pos, precedence, next.node)
  ELSE Returned(left, pos)

\* the prefix parselets: terminals, prefix unary operators, groups
PrefixParse(tokens, pos, token) ==
  IF token.type \in {"INT_LITERAL", "FLOAT_LITERAL"}
  THEN Returned(<<"LITERAL", token>>, pos)
  ELSE IF token.type = "IDENTIFIER"
  THEN Returned(<<"IDENTIFIER", token>>, pos)
  ELSE IF token.type \in {"PLUS", "MINUS"}
  THEN LET operand == ParserParseExpression(tokens, pos, PREFIX)
       IN IF operand.st = "throw" THEN operand
          ELSE IF operand.node = Null
          THEN Threw("ParserError", OperatorMissingRightOperand(token.value))
          ELSE Returned(<<"PREFIX_OPERATOR", token, operand.node>>, operand.pos)
  ELSE \* LEFT_PAREN
       IF Peek(tokens, pos).value = ")"
       THEN Threw("ParserError", EmptyParens)
       ELSE LET expr == ParserParseExpression(tokens, pos, LOWEST)
            IN IF expr.st = "throw" THEN expr
               ELSE IF expr.node = Null
               THEN Threw("ParserError", GenericFailure)
               ELSE IF Peek(tokens, expr.pos).type # "RIGHT_PAREN"
               THEN Threw("ParserError", MissingRightParen)
               ELSE Returned(<<"GROUP", expr.node>>, expr.pos + 1)

\* the infix parselets: binary operators, function calls
InfixParse(tokens, pos, left, token) ==
  IF token.type # "LEFT_PAREN"
  THEN LET right == ParserParseExpression(tokens, pos, InfixPrecedence(token.type))
       IN IF right.st = "throw" THEN right
          ELSE IF right.node = Null
          THEN Threw("ParserError", OperatorMissingRightOperand(token.value))
          ELSE Returned(<<"BINARY_OPERATOR", token, left, right.node>>, right.pos)
  ELSE LET expr == ParserParseExpression(tokens, pos, LOWEST)
       IN IF expr.st = "throw" THEN expr
          ELSE IF expr.node = Null
          THEN IF HasToken(left)
               THEN Threw("ParserError", InvalidArgument(left[2].value))
               ELSE Threw("TypeError", <<"Cannot read properties of null">>)
          ELSE IF Peek(tokens, expr.pos).type # "RIGHT_PAREN"
          THEN Threw("ParserError", MissingRightParen)
          ELSE IF left[1] # "IDENTIFIER"
          THEN Threw("ParserError", NonIdentifierFunctionName)
          ELSE Returned(<<"FUNCTION_CALL", left, expr.node>>, expr.pos + 1)

ParsedExpression(expression, userReadableError) ==
  [st |-> "return", expression |-> expression,
   userReadableError |-> userReadableError]

\* a parseExpression that reports every failure of the parser with the
\* generic message
ParseTrimmedGeneric(source) ==
  LET tokens == Tokenize(source)
  IN IF tokens.st = "throw"
     THEN ParsedExpression(Null, tokens.message)
     ELSE LET parsed == ParserParseExpression(tokens.tokens, 1, LOWEST)
          IN IF parsed.st = "throw" \/ HasMoreTokens(tokens.tokens, parsed.pos)
             THEN ParsedExpression(Null, GenericFailure)
             ELSE ParsedExpression(parsed.node, Null)

\* what parseExpression makes of the trimmed source
ParseTrimmed(source) ==
  LET tokens == Tokenize(source)
  IN IF tokens.st = "throw"
     THEN \* tokenize throws nothing but ParserError
          ParsedExpression(Null, tokens.message)
     ELSE LET parsed == ParserParseExpression(tokens.tokens, 1, LOWEST)
              expression == IF parsed.st = "throw" THEN Null ELSE parsed.node
              caught == IF parsed.st # "throw" THEN Null
                        ELSE IF parsed.name = "ParserError" THEN parsed.message
                        ELSE GenericFailure
              userReadableError ==
                IF ~Truthy(caught) /\ HasMoreTokens(tokens.tokens, parsed.pos)
                THEN GenericFailure
                ELSE caught
          IN IF userReadableError # Null
             THEN ParsedExpression(Null, userReadableError)
             ELSE ParsedExpression(expression, userReadableError)

\* a parseExpression that does not trim
ParseExpressionUntrimmed(source) ==
  IF Len(source) = 0
  THEN ParsedExpression(Null, EmptyString)
  ELSE ParseTrimmed(source)

\* parseExpression(source)
ParseExpression(source) ==
  IF Len(Trim(source)) = 0
  THEN ParsedExpression(Null, EmptyString)
  ELSE ParseTrimmed(Trim(source))

(***************************************************************************)
(* Code generation and the public compile functions.  Generated code is    *)
(* the sequence of its pieces.                                             *)
(***************************************************************************)
\* the independent variable names the compile functions are called with
IndependentVariables == {"x", "t"}

Generated(code) ==
  [st |-> "return", code |-> code, name |-> "", message |-> EmptyString]
Raised(name, message) ==
  [st |-> "throw", code |-> <<>>, name |-> name, message |-> message]

\* the series function an operator compiles to
OperatorFunctionName(op) ==
  IF op = "+" THEN <<"s.add">>
  ELSE IF op = "-" THEN <<"s.subtract">>
  ELSE IF op = "*" THEN <<"s.multiply">>
  ELSE IF op = "/" THEN <<"s.divide">>
  ELSE IF op = "^" THEN <<"s.pow">>
  ELSE Null

\* an indexOf that finds every name at index 0
IndexOfAnyName(independentVariables, name) == 0

\* independentVariables.indexOf(name), 0-based, -1 if absent
IndexOf(independentVariables, name) ==
  IF \E i \in 1..Len(independentVariables) : independentVariables[i] = name
  THEN (CHOOSE i \in 1..Len(independentVariables) :
          /\ independentVariables[i] = name
          /\ \A j \in 1..(i - 1) : independentVariables[j] # name) - 1
  ELSE -1

RECURSIVE GenerateJavascriptForExpression(_, _)
GenerateJavascriptForExpression(ctx, node) ==
  IF node = Null
  THEN \* switch (node.type) on null
       Raised("TypeError", <<"Cannot read properties of null">>)
  ELSE IF node[1] = "BINARY_OPERATOR"
  THEN LET functionName == OperatorFunctionName(node[2].value)
       IN IF ~Truthy(functionName)
          THEN Raised("Error", <<"Unhandled operator in toAutodiffSource">>)
          ELSE LET first == GenerateJavascriptForExpression(ctx, node[3])
               IN IF first.st = "throw" THEN first
                  ELSE LET second == GenerateJavascriptForExpression(ctx, node[4])
                       IN IF second.st = "throw" THEN second
                          ELSE Generated(functionName \o <<"(">> \o first.code
                                         \o <<", ">> \o second.code \o <<")">>)
  ELSE IF node[1] = "FUNCTION_CALL"
  THEN LET functionName == node[2][2].value
       IN IF functionName \notin SupportedFunctions
          THEN Raised("Error", <<functionName, "is not a supported function">>)
          ELSE LET argument == GenerateJavascriptForExpression(ctx, node[3])
               IN IF argument.st = "throw" THEN argument
                  ELSE Generated(<<"s.", functionName, "(">> \o argument.code \o <<")">>)
  ELSE IF node[1] = "IDENTIFIER"
  THEN LET name == node[2].value
           idx == IndexOf(ctx.independentVariables, name)
       IN IF idx = -1
          THEN Raised("Error",
                 <<"That expression contains an identifier that isn't an independent variable:", name>>)
          ELSE IF ctx.type = "SINGLE_VARIABLE"
          THEN Generated(<<"s.variableEvaluatedAtPoint(", name, ")">>)
          ELSE IF idx = 0 THEN Generated(<<"s.xEvaluatedAtPoint(", name, ")">>)
          ELSE IF idx = 1 THEN Generated(<<"s.yEvaluatedAtPoint(", name, ")">>)
          ELSE Raised("Error", <<"Invalid idx">>)
  ELSE IF node[1] = "LITERAL"
  THEN Generated(<<node[2].value>>)
  ELSE IF node[1] = "PREFIX_OPERATOR" /\ node[2].value = "-"
  THEN LET argument == GenerateJavascriptForExpression(ctx, node[3])
       IN IF argument.st = "throw" THEN argument
          ELSE Generated(<<"s.negative(">> \o argument.code \o <<")">>)
  ELSE IF node[1] = "PREFIX_OPERATOR" /\ node[2].value = "+"
  THEN \* falls through to case GROUP
       GenerateJavascriptForExpression(ctx, node[3])
  ELSE IF node[1] = "PREFIX_OPERATOR"
  THEN Raised("Error", <<"Unhandled operator in toAutodiffSource">>)
  ELSE \* GROUP
       GenerateJavascriptForExpression(ctx, node[2])

\* buildSingleVariableAutodiffFunctionForExpression, up to the closure it returns
BuildSingleVariableAutodiffFunctionForExpression(expression, independentVariable) ==
  LET ctx == [type |-> "SINGLE_VARIABLE",
              independentVariables |-> <<independentVariable>>]
      generated == GenerateJavascriptForExpression(ctx, expression)
  IN IF generated.st = "throw" THEN generated
     ELSE Generated(<<"return s.toValueAndDerivatives(">> \o generated.code \o <<")">>)

\* buildTwoVariableAutodiffFunctionForExpression, up to the closure it returns
BuildTwoVariableAutodiffFunctionForExpression(expression, independentVariables) ==
  LET ctx == [type |-> "TWO_VARIABLE",
              independentVariables |-> independentVariables]
      generated == GenerateJavascriptForExpression(ctx, expression)
  IN IF generated.st = "throw" THEN generated
     ELSE Generated(<<"return s.toValueAndDerivatives(">> \o generated.code \o <<")">>)

\* compileFunction(independentVariable, exprString)
CompileFunction(independentVariable, exprString) ==
  LET parsed == ParseExpression(exprString)
  IN IF Truthy(parsed.userReadableError)
     THEN Raised("Error", parsed.userReadableError)
     ELSE BuildSingleVariableAutodiffFunctionForExpression(
            parsed.expression, independentVariable)

\* compileTwoVariableFunction(first, second, exprString)
CompileTwoVariableFunction(firstIndependentVariable, secondIndependentVariable, exprString) ==
  LET parsed == ParseExpression(exprString)
  IN IF Truthy(parsed.userReadableError)
     THEN Raised("Error", parsed.userReadableError)
     ELSE BuildTwoVariableAutodiffFunctionForExpression(
            parsed.expression,
            <<firstIndependentVariable, secondIndependentVariable>>)

(***************************************************************************)
(* The parser specifications: a source is chosen, one function is applied. *)
(***************************************************************************)
\* tokenize(src)
DoTokenize ==
  /\ out = <<>>
  /\ out' = <<"tokenize", Tokenize(src)>>
  /\ UNCHANGED src
  /\ UNCHANGED nonParserVars

\* parseExpression(src)
DoParseExpression ==
  /\ out = <<>>
  /\ out' = <<"parseExpression", ParseExpression(src)>>
  /\ UNCHANGED src
  /\ UNCHANGED nonParserVars

\* compileFunction(v, src)
DoCompileFunction(v) ==
  /\ out = <<>>
  /\ out' = <<"compileFunction", CompileFunction(v, src), <<v>>>>
  /\ UNCHANGED src
  /\ UNCHANGED nonParserVars

\* compileTwoVariableFunction(v, 'y', src)
DoCompileTwoVariableFunction(v) ==
  /\ out = <<>>
  /\ out' = <<"compileTwoVariableFunction",
              CompileTwoVariableFunction(v, "y", src), <<v, "y">>>>
  /\ UNCHANGED src
  /\ UNCHANGED nonParserVars

PoolIdle == PoolInit /\ kernel = "Series" /\ KernelIdle

InitTokenize == PoolIdle /\ src \in TokenizerSources /\ out = <<>>

NextTokenize ==
  \/ DoTokenize

SpecTokenize == InitTokenize /\ [][NextTokenize]_vars

InitParse == PoolIdle /\ src \in ParserSources /\ out = <<>>

NextParse ==
  \/ DoParseExpression

SpecParse == InitParse /\ [][NextParse]_vars

NextCompile ==
  \/ \E v \in IndependentVariables : DoCompileFunction(v)
  \/ \E v \in IndependentVariables : DoCompileTwoVariableFunction(v)

\* the pieces of the sources that are compiled
CompileLexemes == {"x", "sin", "2", "+", "-", "(", ")"}
CompileSources == SourcesOver(CompileLexemes, MaxSrcLen)

InitCompile == PoolIdle /\ src \in CompileSources /\ out = <<>>

SpecCompile == InitCompile /\ [][NextCompile]_vars

(***************************************************************************)
(* Properties of the tokenizer, the parser and the compile functions.      *)
(***************************************************************************)
IsCompile == out # <<>> /\ out[1] \in {"compileFunction", "compileTwoVariableFunction"}
IsParse == out # <<>> /\ out[1] = "parseExpression"
IsTokenize == out # <<>> /\ out[1] = "tokenize"

\* the identifiers of a node
RECURSIVE IdentifiersOf(_)
IdentifiersOf(node) ==
  IF node[1] = "IDENTIFIER" THEN {node[2].value}
  ELSE IF node[1] = "LITERAL" THEN {}
  ELSE IF node[1] = "PREFIX_OPERATOR" THEN IdentifiersOf(node[3])
  ELSE IF node[1] = "BINARY_OPERATOR" THEN IdentifiersOf(node[3]) \cup IdentifiersOf(node[4])
  ELSE IF node[1] = "GROUP" THEN IdentifiersOf(node[2])
  ELSE IdentifiersOf(node[3])

\* the source is malformed: parseExpression has an error message for it
Malformed(source) == Truthy(ParseExpression(source).userReadableError)
\* the source parses and uses a name that is neither a declared variable nor
\* a supported function
NamesUndeclared(source, declared) ==
  /\ ParseExpression(source).expression # Null
  /\ \E name \in IdentifiersOf(ParseExpression(source).expression) :
       /\ name \notin SupportedFunctions
       /\ \A i \in 1..Len(declared) : declared[i] # name

\* C5: for a source that is malformed (invalid character, parse error) or
\* that names an undeclared identifier, compileFunction and
\* compileTwoVariableFunction return an error value and do not throw.
CompileReturnsErrorValue ==
  (IsCompile /\ (Malformed(src) \/ NamesUndeclared(src, out[3])))
    => out[2].st = "return"

WhitespaceOnly(source) ==
  \A i \in 1..Len(source) : FirstChar(source[i]) \in SpaceChars

\* C6: parseExpression returns normally, and its result is a non-null AST
\* with no error message, or a null AST with a non-empty error message, or,
\* only for an empty or whitespace-only source, a null AST with an empty
\* error message.
ParseResultShape ==
  IsParse =>
    /\ out[2].st = "return"
    /\ \/ out[2].expression # Null /\ out[2].userReadableError = Null
       \/ /\ out[2].expression = Null
          /\ out[2].userReadableError \notin {Null, EmptyString}
       \/ /\ out[2].expression = Null
          /\ out[2].userReadableError = EmptyString
          /\ WhitespaceOnly(src)
ParseResultShapeWitness ==
  /\ IsParse
  /\ src # <<>>
  /\ WhitespaceOnly(src)
  /\ out[2].expression = Null
  /\ out[2].userReadableError = EmptyString

\* C7: compiling an empty or whitespace-only source does not fail with an
\* internal error.
CompileEmptyIsNothingToCompile ==
  (IsCompile /\ WhitespaceOnly(src)) => out[2].st = "return"

\* the tokens of a source, in order: its pieces other than white space
RECURSIVE SourceTokens(_)
SourceTokens(source) ==
  IF source = <<>> THEN <<>>
  ELSE IF FirstChar(Head(source)) \in SpaceChars THEN SourceTokens(Tail(source))
  ELSE <<Head(source)>> \o SourceTokens(Tail(source))

IsLiteralText(t) == FirstChar(t) \in DigitChars
IsIdentifierText(t) == FirstChar(t) \in LetterChars
\* a '*' belongs between the adjacent tokens a and b
StarBetween(a, b) ==
  /\ \/ IsLiteralText(a)
     \/ a = ")"
     \/ IsIdentifierText(a) /\ a \notin SupportedFunctions
  /\ \/ IsIdentifierText(b)
     \/ IsLiteralText(b)
     \/ b = "("
\* the tokens with a '*' in each such place and nowhere else
RECURSIVE WithStars(_)
WithStars(tokens) ==
  IF Len(tokens) <= 1 THEN tokens
  ELSE <<tokens[1]>>
       \o (IF StarBetween(tokens[1], tokens[2]) THEN <<"*">> ELSE <<>>)
       \o WithStars(Tail(tokens))
TokenValues(tokens) == [i \in 1..Len(tokens) |-> tokens[i].value]

\* C8: tokenize inserts a '*' between two adjacent tokens exactly when the
\* first is a literal, a right parenthesis or an identifier that is not a
\* supported function name and the second is an identifier, a literal or a
\* left parenthesis; nothing between a function name and '('; the source
\* tokens are neither removed nor reordered.
ImplicitMultiplicationExact ==
  (IsTokenize /\ out[2].st = "ok") =>
    TokenValues(out[2].tokens) = WithStars(SourceTokens(src))
ImplicitMultiplicationExactWitness ==
  /\ IsTokenize
  /\ out[2].st = "ok"
  /\ Len(out[2].tokens) > Len(SourceTokens(src))
  /\ \E i \in 1..(Len(out[2].tokens) - 1) :
       /\ out[2].tokens[i].value \in SupportedFunctions
       /\ out[2].tokens[i + 1].value = "("

\* the precedence of a binary operator, in the order SUM < PRODUCT < EXPONENT
OperatorRank(op) ==
  IF op \in {"+", "-"} THEN 1 ELSE IF op \in {"*", "/"} THEN 2 ELSE 3

\* in the tree, a tighter operator is never applied to the result of a looser
\* one: an operand of a binary operator is not a binary operator of lower
\* rank, the operand of a prefix operator is not a binary operator, and what
\* is called is a bare identifier
RECURSIVE BindsTighter(_)
BindsTighter(node) ==
  IF node[1] \in {"LITERAL", "IDENTIFIER"} THEN TRUE
  ELSE IF node[1] = "GROUP" THEN BindsTighter(node[2])
  ELSE IF node[1] = "PREFIX_OPERATOR"
  THEN node[3][1] # "BINARY_OPERATOR" /\ BindsTighter(node[3])
  ELSE IF node[1] = "FUNCTION_CALL"
  THEN node[2][1] = "IDENTIFIER" /\ BindsTighter(node[3])
  ELSE \A k \in {3, 4} :
            /\ node[k][1] = "BINARY_OPERATOR"
                 => OperatorRank(node[k][2].value) >= OperatorRank(node[2].value)
            /\ BindsTighter(node[k])

\* the tokens a tree was made of, left to right
RECURSIVE Yield(_)
Yield(node) ==
  IF node[1] \in {"LITERAL", "IDENTIFIER"} THEN <<node[2].value>>
  ELSE IF node[1] = "GROUP" THEN <<"(">> \o Yield(node[2]) \o <<")">>
  ELSE IF node[1] = "PREFIX_OPERATOR" THEN <<node[2].value>> \o Yield(node[3])
  ELSE IF node[1] = "FUNCTION_CALL"
  THEN Yield(node[2]) \o <<"(">> \o Yield(node[3]) \o <<")">>
  ELSE Yield(node[3]) \o <<node[2].value>> \o Yield(node[4])

Id(name) == <<"IDENTIFIER", Token("IDENTIFIER", name)>>
Lit(text) == <<"LITERAL", Token("FLOAT_LITERAL", text)>>
Bin(type, op, a, b) == <<"BINARY_OPERATOR", Token(type, op), a, b>>
Pre(type, op, a) == <<"PREFIX_OPERATOR", Token(type, op), a>>

\* C9: in every AST returned by parseExpression an operator of higher
\* precedence binds tighter, SUM < PRODUCT < EXPONENT < PREFIX < CALL:
\* a + b * c is a + (b * c), a * b ^ c is a * (b ^ c), - a ^ b is (-a) ^ b,
\* and a call binds tighter than a prefix operator.
PrecedenceOrder ==
  (IsParse /\ out[2].expression # Null) =>
    /\ BindsTighter(out[2].expression)
    /\ Yield(out[2].expression) = WithStars(SourceTokens(src))
    /\ src = <<"x", "+", "2", "*", "x">> =>
         out[2].expression =
           Bin("PLUS", "+", Id("x"), Bin("MULTIPLY", "*", Lit("2"), Id("x")))
    /\ src = <<"x", "*", "2", "^", "x">> =>
         out[2].expression =
           Bin("MULTIPLY", "*", Id("x"), Bin("POW", "^", Lit("2"), Id("x")))
    /\ src = <<"-", "x", "^", "2">> =>
         out[2].expression =
           Bin("POW", "^", Pre("MINUS", "-", Id("x")), Lit("2"))
    /\ src = <<"-", "sin", "(", "x", ")">> =>
         out[2].expression =
           Pre("MINUS", "-", <<"FUNCTION_CALL", Id("sin"), Id("x")>>)
PrecedenceOrderWitness ==
  /\ IsParse
  /\ src = <<"x", "*", "2", "^", "x">>
  /\ out[2].expression =
       Bin("MULTIPLY", "*", Id("x"), Bin("POW", "^", Lit("2"), Id("x")))

(***************************************************************************)
(* Series arithmetic.  An operand is a number or a series; a series is the *)
(* array of its coefficients (index 0 of the code is index 1 here).        *)
(***************************************************************************)
\* the coefficient and scalar values the operands are drawn from
CoefficientValues == {-1, 0, 2}

(***************************************************************************)
(* JavaScript numbers.  A number is <<n, d>>: the rational n/d in lowest   *)
(* terms with d > 0, or Infinity <<1, 0>>, -Infinity <<-1, 0>>, NaN        *)
(* <<0, 0>>.  The operand values used are sums, products and quotients of  *)
(* small powers of two, which a double holds exactly; the sign of zero is  *)
(* not kept.  A read past the end of an array gives undefined.             *)
(***************************************************************************)
NaN == <<0, 0>>
PosInfinity == <<1, 0>>
NegInfinity == <<-1, 0>>
Undefined == <<0, -1>>
N(i) == <<i, 1>>

Abs(i) == IF i < 0 THEN 0 - i ELSE i
Sgn(i) == IF i < 0 THEN -1 ELSE IF i > 0 THEN 1 ELSE 0
Max(i, j) == IF i < j THEN j ELSE i
RECURSIVE GCD(_, _)
GCD(i, j) == IF j = 0 THEN i ELSE GCD(j, i % j)
Norm(n, d) ==
  IF d = 0 THEN <<Sgn(n), 0>>
  ELSE LET g == GCD(Abs(n), Abs(d))
       IN <<(Sgn(d) * n) \div g, Abs(d) \div g>>

\* an object that is not a number: the API object the generated code is given
ApiObject == <<0, -2>>

\* ToNumber(undefined) is NaN, and so is ToNumber of a plain object
ToNumber(x) == IF x \in {Undefined, ApiObject} THEN NaN ELSE x
IsNaN(x) == ToNumber(x) = NaN
IsFinite(x) == ToNumber(x)[2] # 0

\* x * y
NumMul(x, y) ==
  LET a == ToNumber(x)
      b == ToNumber(y)
  IN Norm(a[1] * b[1], a[2] * b[2])
\* x + y
NumAdd(x, y) ==
  LET a == ToNumber(x)
      b == ToNumber(y)
  IN IF a = NaN \/ b = NaN THEN NaN
     ELSE IF a[2] = 0 /\ b[2] = 0 THEN (IF a = b THEN a ELSE NaN)
     ELSE IF a[2] = 0 THEN a
     ELSE IF b[2] = 0 THEN b
     ELSE Norm(a[1] * b[2] + b[1] * a[2], a[2] * b[2])
\* - x
NumNeg(x) == LET a == ToNumber(x) IN <<0 - a[1], a[2]>>
\* x - y
NumSub(x, y) == NumAdd(x, NumNeg(y))
\* x / y
NumDiv(x, y) ==
  LET b == ToNumber(y)
      reciprocal == IF b = NaN THEN NaN
                    ELSE IF b[2] = 0 THEN N(0)
                    ELSE IF b[1] = 0 THEN PosInfinity
                    ELSE Norm(b[2], b[1])
  IN NumMul(x, reciprocal)
\* x < y
NumLess(x, y) ==
  LET a == ToNumber(x)
      b == ToNumber(y)
  IN IF a = NaN \/ b = NaN THEN FALSE
     ELSE IF a[2] = 0 /\ b[2] = 0 THEN a[1] < b[1]
     ELSE IF a[2] = 0 THEN a[1] < 0
     ELSE IF b[2] = 0 THEN b[1] > 0
     ELSE a[1] * b[2] < b[1] * a[2]

\* Math.log, on the arguments whose logarithm is a number of this form
MathLog(x) ==
  LET a == ToNumber(x)
  IN IF a = NaN \/ NumLess(a, N(0)) THEN NaN
     ELSE IF a = N(0) THEN NegInfinity
     ELSE IF a = N(1) THEN N(0)
     ELSE IF a = PosInfinity THEN PosInfinity
     ELSE CHOOSE irrational \in {} : TRUE
\* Math.exp, on the arguments whose exponential is a number of this form
MathExp(x) ==
  LET a == ToNumber(x)
  IN IF a = NaN THEN NaN
     ELSE IF a = NegInfinity THEN N(0)
     ELSE IF a = N(0) THEN N(1)
     ELSE IF a = PosInfinity THEN PosInfinity
     ELSE CHOOSE irrational \in {} : TRUE

\* array[i], i counted from 0
At(array, i) == IF 0 <= i /\ i < Len(array) THEN array[i + 1] ELSE Undefined
\* array[i] = v, i counted from 0: an array grows when written past its end
SetAt(array, i, v) ==
  IF i < Len(array) THEN [array EXCEPT ![i + 1] = v]
  ELSE [j \in 1..(i + 1) |->
          IF j <= Len(array) THEN array[j] ELSE IF j = i + 1 THEN v ELSE Undefined]

(***************************************************************************)
(* Operands and results: numbers, Series and Series2D objects, and thrown  *)
(* errors.                                                                 *)
(***************************************************************************)
Number(value) ==
  [type |-> "number", value |-> value, coefficients |-> <<>>, size |-> 0,
   message |-> ""]
SeriesOf(coefficients) ==
  [type |-> "Series", value |-> NaN, coefficients |-> coefficients, size |-> 0,
   message |-> ""]
Series2DOf(coefficients, size) ==
  [type |-> "Series2D", value |-> NaN, coefficients |-> coefficients,
   size |-> size, message |-> ""]
Thrown(message) ==
  [type |-> "throw", value |-> NaN, coefficients |-> <<>>, size |-> 0,
   message |-> message]
IsSeries(a) == a.type \in {"Series", "Series2D"}
\* the same object with other coefficients
WithCoefficients(s, coefficients) == [s EXCEPT !.coefficients = coefficients]

\* pool.allocate() of a pool with nothing on its free list: new Series() /
\* new Series2D(), every coefficient 0
NewSeries(k, n) ==
  IF k = "Series"
  THEN SeriesOf([i \in 1..ShapeOf(k, n) |-> N(0)])
  ELSE Series2DOf([i \in 1..ShapeOf(k, n) |-> N(0)], n + 1)

\* copySeries(to, from)
CopySeries(to, from) ==
  WithCoefficients(to, [i \in 1..Len(to.coefficients) |-> At(from.coefficients, i - 1)])

\* pool.allocateCopy(s), res being the buffer pool.allocate() returns
AllocateCopyOf(res, s) == CopySeries(res, s)

\* constantValue(value)
ConstantValue(res, value) ==
  WithCoefficients(res, SetAt(res.coefficients, 0, value))

\* a get that indexes row first
GetTransposed(s, x, y) == At(s.coefficients, x * s.size + y)
\* Series2D.get(x, y)
Get(s, x, y) == At(s.coefficients, y * s.size + x)
\* Series2D.set(x, y, value)
Set(s, x, y, value) ==
  WithCoefficients(s, SetAt(s.coefficients, y * s.size + x, value))

\* for (i = 0; i < a.coefficients.length; i++) res.coefficients[i] += b.coefficients[i]
AddInto(res, a, b) ==
  WithCoefficients(res,
    [i \in 1..Max(Len(res.coefficients), Len(a.coefficients)) |->
       IF i <= Len(a.coefficients)
       THEN NumAdd(At(res.coefficients, i - 1), At(b.coefficients, i - 1))
       ELSE res.coefficients[i]])

\* for (i = 0; i < res.coefficients.length; i++) res.coefficients[i] = f(i),
\* f given as the array of its values
Filled(res, values) ==
  WithCoefficients(res, [i \in 1..Len(res.coefficients) |-> values[i]])

\* add(a, b) of the Series kernel; res is the buffer the pool hands out
Add(res, a, b) ==
  IF a.type = "number" /\ b.type = "number"
  THEN ConstantValue(res, NumAdd(a.value, b.value))
  ELSE IF a.type = "number"
  THEN LET copy == AllocateCopyOf(res, b)
       IN WithCoefficients(copy,
            SetAt(copy.coefficients, 0, NumAdd(At(copy.coefficients, 0), a.value)))
  ELSE IF b.type = "number"
  THEN LET copy == AllocateCopyOf(res, a)
       IN WithCoefficients(copy,
            SetAt(copy.coefficients, 0, NumAdd(At(copy.coefficients, 0), b.value)))
  ELSE AddInto(AllocateCopyOf(res, a), a, b)

\* subtract(a, b) of the Series kernel
Subtract(res, a, b) ==
  IF a.type = "number" /\ b.type = "number"
  THEN ConstantValue(res, NumSub(a.value, b.value))
  ELSE IF a.type = "number"
  THEN Filled(res, [i \in 1..Len(res.coefficients) |->
                      NumSub(a.value, At(b.coefficients, i - 1))])
  ELSE IF b.type = "number"
  THEN Filled(res, [i \in 1..Len(res.coefficients) |->
                      NumSub(At(a.coefficients, i - 1), b.value)])
  ELSE Filled(res, [i \in 1..Len(res.coefficients) |->
                      NumSub(At(a.coefficients, i - 1), At(b.coefficients, i - 1))])

\* add(a, b) of the Series2D kernel
Add2D(res, a, b) ==
  IF a.type = "number" /\ b.type = "number"
  THEN ConstantValue(res, NumAdd(a.value, b.value))
  ELSE IF a.type = "number"
  THEN LET copy == AllocateCopyOf(res, b)
       IN WithCoefficients(copy,
            SetAt(copy.coefficients, 0, NumAdd(At(copy.coefficients, 0), a.value)))
  ELSE IF b.type = "number"
  THEN LET copy == AllocateCopyOf(res, a)
       IN WithCoefficients(copy,
            SetAt(copy.coefficients, 0, NumAdd(At(copy.coefficients, 0), b.value)))
  ELSE AddInto(AllocateCopyOf(res, a), a, b)

\* subtract(a, b) of the Series2D kernel
Subtract2D(res, a, b) ==
  IF a.type = "number" /\ b.type = "number"
  THEN ConstantValue(res, NumSub(a.value, b.value))
  ELSE IF a.type = "number"
  THEN Filled(res, [i \in 1..Len(res.coefficients) |->
                      NumSub(a.value, At(b.coefficients, i - 1))])
  ELSE IF b.type = "number"
  THEN Filled(res, [i \in 1..Len(res.coefficients) |->
                      NumSub(At(a.coefficients, i - 1), b.value)])
  ELSE Filled(res, [i \in 1..Len(res.coefficients) |->
                      NumSub(At(a.coefficients, i - 1), At(b.coefficients, i - 1))])

\* let convolution = 0; for (i...last) convolution += a[i] * b[k - i]
RECURSIVE ConvolutionSum(_, _, _, _, _, _)
ConvolutionSum(a, b, k, i, last, total) ==
  IF i > last THEN total
  ELSE ConvolutionSum(a, b, k, i + 1, last,
         NumAdd(total, NumMul(At(a, i), At(b, k - i))))

\* let convolution = 0; for (i...last) convolution += i * u[i] * v[k - i]
RECURSIVE WeightedSum(_, _, _, _, _, _)
WeightedSum(u, v, k, i, last, total) ==
  IF i > last THEN total
  ELSE WeightedSum(u, v, k, i + 1, last,
         NumAdd(total, NumMul(NumMul(N(i), At(u, i)), At(v, k - i))))

\* the loop of the series branch of multiply, from k on
RECURSIVE MultiplyFrom(_, _, _, _)
MultiplyFrom(h, a, b, k) ==
  IF k >= Len(a) THEN h
  ELSE MultiplyFrom(SetAt(h, k, ConvolutionSum(a, b, k, 0, k, N(0))), a, b, k + 1)

\* multiply(aInput, bInput) of the Series kernel
Multiply(res, aInput, bInput) ==
  IF aInput.type = "number" /\ bInput.type = "number"
  THEN ConstantValue(res, NumMul(aInput.value, bInput.value))
  ELSE IF aInput.type = "number"
  THEN Filled(res, [i \in 1..Len(res.coefficients) |->
                      NumMul(aInput.value, At(bInput.coefficients, i - 1))])
  ELSE IF bInput.type = "number"
  THEN Filled(res, [i \in 1..Len(res.coefficients) |->
                      NumMul(At(aInput.coefficients, i - 1), bInput.value)])
  ELSE WithCoefficients(res,
         MultiplyFrom(res.coefficients, aInput.coefficients, bInput.coefficients, 0))

\* the loop of the series branch of divide, from k on
RECURSIVE DivideFrom(_, _, _, _)
DivideFrom(h, a, b, k) ==
  IF k >= Len(a) THEN h
  ELSE DivideFrom(
         SetAt(h, k, NumDiv(NumSub(At(a, k), ConvolutionSum(h, b, k, 0, k - 1, N(0))),
                            At(b, 0))),
         a, b, k + 1)

\* divide(aInput, bInput) of the Series kernel
Divide(res, aInput, bInput) ==
  IF aInput.type = "number" /\ bInput.type = "number"
  THEN ConstantValue(res, NumDiv(aInput.value, bInput.value))
  ELSE IF aInput.type = "number"
  THEN Filled(res, [i \in 1..Len(res.coefficients) |->
                      NumDiv(aInput.value, At(bInput.coefficients, i - 1))])
  ELSE IF bInput.type = "number"
  THEN Filled(res, [i \in 1..Len(res.coefficients) |->
                      NumDiv(At(aInput.coefficients, i - 1), bInput.value)])
  ELSE LET a == aInput.coefficients
           b == bInput.coefficients
       IN WithCoefficients(res,
            DivideFrom(SetAt(res.coefficients, 0, NumDiv(At(a, 0), At(b, 0))), a, b, 1))

\* the loop of the series branch of exp, from k on
RECURSIVE ExpFrom(_, _, _)
ExpFrom(h, a, k) ==
  IF k >= Len(a) THEN h
  ELSE ExpFrom(SetAt(h, k, NumDiv(WeightedSum(a, h, k, 1, k, N(0)), N(k))), a, k + 1)

\* exp(aInput) of the Series kernel
Exp(res, aInput) ==
  IF aInput.type = "number"
  THEN ConstantValue(res, MathExp(aInput.value))
  ELSE LET a == aInput.coefficients
       IN WithCoefficients(res,
            ExpFrom(SetAt(res.coefficients, 0, MathExp(At(a, 0))), a, 1))

\* the loop of the series branch of log, from k on
RECURSIVE LogFrom(_, _, _)
LogFrom(h, a, k) ==
  IF k >= Len(a) THEN h
  ELSE LogFrom(
         SetAt(h, k,
           NumMul(NumDiv(N(1), At(a, 0)),
                  NumSub(At(a, k), NumDiv(WeightedSum(h, a, k, 1, k - 1, N(0)), N(k))))),
         a, k + 1)

\* log(aInput) of the Series kernel
Log(res, aInput) ==
  IF aInput.type = "number"
  THEN IF NumLess(aInput.value, N(0))
       THEN Thrown("log called with a negative number")
       ELSE ConstantValue(res, MathLog(aInput.value))
  ELSE IF NumLess(At(aInput.coefficients, 0), N(0))
  THEN Thrown("log called with a series whose first coefficient is negative")
  ELSE LET a == aInput.coefficients
       IN WithCoefficients(res,
            LogFrom(SetAt(res.coefficients, 0, MathLog(At(a, 0))), a, 1))

\* isNegative(a), of both kernels
IsNegative(a) ==
  IF a.type = "number" THEN NumLess(a.value, N(0))
  ELSE NumLess(At(a.coefficients, 0), N(0))

\* pow(a, b) of the Series kernel
Pow(res, a, b) ==
  IF IsNegative(a)
  THEN Filled(res, [i \in 1..Len(res.coefficients) |-> NaN])
  ELSE LET logarithm == Log(res, a)
       IN IF logarithm.type = "throw" THEN logarithm
          ELSE Exp(res, Multiply(res, b, logarithm))

\* convolve(a, b, boxWidth, boxHeight): the double loop, t counting its turns
RECURSIVE ConvolveFrom(_, _, _, _, _, _)
ConvolveFrom(a, b, boxWidth, boxHeight, t, total) ==
  IF t >= boxWidth * boxHeight THEN total
  ELSE LET x == t \div boxHeight
           y == t % boxHeight
       IN ConvolveFrom(a, b, boxWidth, boxHeight, t + 1,
            NumAdd(total, NumMul(Get(a, x, y),
                                 Get(b, boxWidth - 1 - x, boxHeight - 1 - y))))
Convolve(a, b, boxWidth, boxHeight) ==
  ConvolveFrom(a, b, boxWidth, boxHeight, 0, N(0))

\* the coordinates: enum Coordinate { X = 0, Y = 1 }
CoordinateX == 0
CoordinateY == 1

\* a choice of coordinate that takes y when k_x = k_y
SelectCoordinateTieY(k_x, k_y) ==
  IF k_x = 0 THEN CoordinateY
  ELSE IF k_y = 0 THEN CoordinateX
  ELSE IF k_x < k_y THEN CoordinateX
  ELSE CoordinateY

\* dConvolve: the coordinate p with the smallest non-zero k_i
SelectCoordinate(k_x, k_y) ==
  IF k_x = 0 THEN CoordinateY
  ELSE IF k_y = 0 THEN CoordinateX
  ELSE IF k_x <= k_y THEN CoordinateX
  ELSE CoordinateY

\* dConvolve: the double loop from (x, y) on
RECURSIVE DConvolveFrom(_, _, _, _, _, _, _, _)
DConvolveFrom(a, b, k_x, k_y, p, x, y, total) ==
  IF x > k_x THEN total
  ELSE IF y > k_y
  THEN DConvolveFrom(a, b, k_x, k_y, p, x + 1,
                     IF p = CoordinateX THEN 0 ELSE 1, total)
  ELSE IF x = k_x /\ y = k_y
  THEN DConvolveFrom(a, b, k_x, k_y, p, x, y + 1, total)
  ELSE LET j_p == IF p = CoordinateX THEN x ELSE y
       IN DConvolveFrom(a, b, k_x, k_y, p, x, y + 1,
            NumAdd(total, NumMul(NumMul(N(j_p), Get(a, x, y)),
                                 Get(b, k_x - x, k_y - y))))

\* dConvolve(a, b, k_x, k_y): a number, or the error it throws
DConvolve(a, b, k_x, k_y) ==
  IF k_x = 0 /\ k_y = 0
  THEN Thrown("dConvolve called with k_x === 0 and k_y === 0")
  ELSE LET p == SelectCoordinate(k_x, k_y)
           k_p == IF p = CoordinateX THEN k_x ELSE k_y
           e_p == IF p = CoordinateX THEN <<1, 0>> ELSE <<0, 1>>
       IN Number(NumDiv(DConvolveFrom(a, b, k_x, k_y, p, e_p[1], e_p[2], N(0)),
                        N(k_p)))

\* the loops of the series branch of multiply, t counting their turns
RECURSIVE Multiply2DFrom(_, _, _, _)
Multiply2DFrom(h, a, b, t) ==
  IF t >= a.size * a.size THEN h
  ELSE LET i == t \div a.size
           j == t % a.size
       IN Multiply2DFrom(Set(h, i, j, Convolve(a, b, i + 1, j + 1)), a, b, t + 1)

\* multiply(a, b) of the Series2D kernel
Multiply2D(res, a, b) ==
  IF a.type = "number" /\ b.type = "number"
  THEN Set(res, 0, 0, NumMul(a.value, b.value))
  ELSE IF a.type = "number"
  THEN Filled(res, [i \in 1..Len(res.coefficients) |->
                      NumMul(a.value, At(b.coefficients, i - 1))])
  ELSE IF b.type = "number"
  THEN Filled(res, [i \in 1..Len(res.coefficients) |->
                      NumMul(At(a.coefficients, i - 1), b.value)])
  ELSE Multiply2DFrom(res, a, b, 0)

\* the loops of the series branch of divide, t counting their turns
RECURSIVE Divide2DFrom(_, _, _, _)
Divide2DFrom(h, a, b, t) ==
  IF t >= a.size * a.size THEN h
  ELSE LET i == t \div a.size
           j == t % a.size
           b_00 == Get(b, 0, 0)
           sum == NumSub(Convolve(h, b, i + 1, j + 1), NumMul(Get(h, i, j), b_00))
       IN Divide2DFrom(
            IF i = 0 /\ j = 0
            THEN Set(h, i, j, NumDiv(Get(a, 0, 0), Get(b, 0, 0)))
            ELSE Set(h, i, j, NumDiv(NumSub(Get(a, i, j), sum), b_00)),
            a, b, t + 1)

\* divide(a, b) of the Series2D kernel
Divide2D(res, a, b) ==
  IF a.type = "number" /\ b.type = "number"
  THEN Set(res, 0, 0, NumDiv(a.value, b.value))
  ELSE IF a.type = "number"
  THEN Filled(res, [i \in 1..Len(res.coefficients) |->
                      NumDiv(a.value, At(b.coefficients, i - 1))])
  ELSE IF b.type = "number"
  THEN Filled(res, [i \in 1..Len(res.coefficients) |->
                      NumDiv(At(a.coefficients, i - 1), b.value)])
  ELSE Divide2DFrom(res, a, b, 0)

\* the loops of the series branch of exp, t counting their turns
RECURSIVE Exp2DFrom(_, _, _)
Exp2DFrom(h, a, t) ==
  IF t >= a.size * a.size THEN h
  ELSE LET y == t \div a.size
           x == t % a.size
       IN Exp2DFrom(
            IF x = 0 /\ y = 0
            THEN Set(h, x, y, MathExp(Get(a, 0, 0)))
            ELSE Set(h, x, y, NumAdd(NumMul(Get(h, 0, 0), Get(a, x, y)),
                                     DConvolve(a, h, x, y).value)),
            a, t + 1)

\* exp(a) of the Series2D kernel
Exp2D(res, a) ==
  IF a.type = "number"
  THEN Set(res, 0, 0, MathExp(a.value))
  ELSE Exp2DFrom(res, a, 0)

\* the loops of the series branch of log, t counting their turns
RECURSIVE Log2DFrom(_, _, _)
Log2DFrom(h, a, t) ==
  IF t >= a.size * a.size THEN h
  ELSE LET y == t \div a.size
           x == t % a.size
       IN Log2DFrom(
            IF x = 0 /\ y = 0
            THEN Set(h, x, y, MathLog(Get(a, 0, 0)))
            ELSE Set(h, x, y, NumDiv(NumSub(Get(a, x, y), DConvolve(h, a, x, y).value),
                                     Get(a, 0, 0))),
            a, t + 1)

\* log(a) of the Series2D kernel
Log2D(res, a) ==
  IF a.type = "number"
  THEN IF NumLess(a.value, N(0))
       THEN Thrown("log called with a negative number")
       ELSE Set(res, 0, 0, MathLog(a.value))
  ELSE Log2DFrom(res, a, 0)

\* pow(a, b) of the Series2D kernel
Pow2D(res, a, b) ==
  IF IsNegative(a)
  THEN Filled(res, [i \in 1..Len(res.coefficients) |-> NaN])
  ELSE LET logarithm == Log2D(res, a)
       IN IF logarithm.type = "throw" THEN logarithm
          ELSE Exp2D(res, Multiply2D(res, b, logarithm))

(***************************************************************************)
(* The Series kernel of series.ts, which allocates its results itself: a   *)
(* result of two numbers is a number, and the loops push onto a new array. *)
(***************************************************************************)

\* the loop of Series.create, pushing 0 while the array is no longer than n
RECURSIVE PushZeros(_, _)
PushZeros(coefficients, n) ==
  IF Len(coefficients) <= n THEN PushZeros(Append(coefficients, N(0)), n)
  ELSE coefficients

\* Series.create(value, derivative) when globalDegree is n
SeriesCreate(n, value, derivative) == SeriesOf(PushZeros(<<value, derivative>>, n))

\* list.multiplyScalar(list, scalar)
ListMultiplyScalar(list, scalar) == [i \in 1..Len(list) |-> NumMul(list[i], scalar)]

\* multiply(aInput, bInput) of series.ts
MultiplyUnpooled(aInput, bInput) ==
  IF aInput.type = "number" /\ bInput.type = "number"
  THEN Number(NumMul(aInput.value, bInput.value))
  ELSE IF aInput.type = "number"
  THEN SeriesOf(ListMultiplyScalar(bInput.coefficients, aInput.value))
  ELSE IF bInput.type = "number"
  THEN SeriesOf(ListMultiplyScalar(aInput.coefficients, bInput.value))
  ELSE SeriesOf(MultiplyFrom(<<>>, aInput.coefficients, bInput.coefficients, 0))

\* exp(aInput) of series.ts
ExpUnpooled(aInput) ==
  IF aInput.type = "number"
  THEN Number(MathExp(aInput.value))
  ELSE LET a == aInput.coefficients
       IN SeriesOf(ExpFrom(<<MathExp(At(a, 0))>>, a, 1))

\* log(aInput) of series.ts
LogUnpooled(aInput) ==
  IF aInput.type = "number"
  THEN IF NumLess(aInput.value, N(0))
       THEN Thrown("log called with a negative number")
       ELSE Number(MathLog(aInput.value))
  ELSE IF NumLess(At(aInput.coefficients, 0), N(0))
  THEN Thrown("log called with a series whose first coefficient is negative")
  ELSE LET a == aInput.coefficients
       IN SeriesOf(LogFrom(<<MathLog(At(a, 0))>>, a, 1))

\* pow(a, b) of series.ts when globalDegree is n
PowUnpooled(n, a, b) ==
  IF IsNegative(a)
  THEN SeriesCreate(n, NaN, NaN)
  ELSE LET logarithm == LogUnpooled(a)
       IN IF logarithm.type = "throw" THEN logarithm
          ELSE ExpUnpooled(MultiplyUnpooled(b, logarithm))

\* the integers of an operand as numbers
Numbers(ints) == [i \in 1..Len(ints) |-> N(ints[i])]
\* a series of the kernel and degree in force with these coefficients
Operand(ints) == WithCoefficients(NewSeries(kernel, degree), Numbers(ints))

\* the kernel's add and subtract, the pool handing out a new buffer
KernelAdd(a, b) ==
  IF kernel = "Series"
  THEN Add(NewSeries(kernel, degree), a, b)
  ELSE Add2D(NewSeries(kernel, degree), a, b)
KernelSubtract(a, b) ==
  IF kernel = "Series"
  THEN Subtract(NewSeries(kernel, degree), a, b)
  ELSE Subtract2D(NewSeries(kernel, degree), a, b)

\* the degree has been set, the pool is unused, the operands are chosen
InitKernel ==
  /\ kernel \in Kernels
  /\ degree \in Degrees
  /\ pool = EmptyPool
  /\ scopes = 0
  /\ returned = <<>>
  /\ handed = <<>>
  /\ evalResult = <<>>
  /\ ParserIdle
  /\ calc \in [a : [1..ShapeOf(kernel, degree) -> CoefficientValues],
               s : CoefficientValues,
               op : {"none"},
               c : {<<>>}]

Applied(op, c) ==
  /\ calc.op = "none"
  /\ calc' = [calc EXCEPT !.op = op, !.c = c]
  /\ UNCHANGED <<kernel, degree, pool, scopes, returned, handed, evalResult>>
  /\ UNCHANGED parserVars

\* add(a, s)
AddSeriesScalar ==
  Applied("add(a, s)", KernelAdd(Operand(calc.a), Number(N(calc.s))).coefficients)
\* add(s, a)
AddScalarSeries ==
  Applied("add(s, a)", KernelAdd(Number(N(calc.s)), Operand(calc.a)).coefficients)
\* subtract(a, s)
SubtractSeriesScalar ==
  Applied("subtract(a, s)",
          KernelSubtract(Operand(calc.a), Number(N(calc.s))).coefficients)
\* subtract(s, a)
SubtractScalarSeries ==
  Applied("subtract(s, a)",
          KernelSubtract(Number(N(calc.s)), Operand(calc.a)).coefficients)

NextKernel ==
  \/ AddSeriesScalar
  \/ AddScalarSeries
  \/ SubtractSeriesScalar
  \/ SubtractScalarSeries

SpecKernel == InitKernel /\ [][NextKernel]_vars

\* add(a, s) = add(s, a) has c0 = a0 + s and c_k = a_k for k >= 1
AddScalarAffectsOnlyCoefficientZero ==
  (calc # <<>> /\ calc.op \in {"add(a, s)", "add(s, a)"}) =>
    /\ Len(calc.c) = Len(calc.a)
    /\ calc.c[1] = N(calc.a[1] + calc.s)
    /\ \A i \in 2..Len(calc.a) : calc.c[i] = N(calc.a[i])

\* C10: for add and subtract with one scalar operand s and one series
\* operand a, the scalar affects only coefficient 0: add as above;
\* subtract(a, s) has c0 = a0 - s and c_k = a_k for k >= 1; subtract(s, a)
\* has c0 = s - a0 and c_k = -a_k for k >= 1.
ScalarAffectsOnlyCoefficientZero ==
  /\ AddScalarAffectsOnlyCoefficientZero
  /\ (calc # <<>> /\ calc.op = "subtract(a, s)") =>
       /\ calc.c[1] = N(calc.a[1] - calc.s)
       /\ \A i \in 2..Len(calc.a) : calc.c[i] = N(calc.a[i])
  /\ (calc # <<>> /\ calc.op = "subtract(s, a)") =>
       /\ calc.c[1] = N(calc.s - calc.a[1])
       /\ \A i \in 2..Len(calc.a) : calc.c[i] = N(0 - calc.a[i])

(***************************************************************************)
(* The kernel operations on operands built by the kernel's constructors.   *)
(* An operand is a number, or a series made by constantValue or by one of  *)
(* the variable constructors while some degree was in force; the degree    *)
(* may have been changed since, by setNumberOfDerivativesToCompute.        *)
(***************************************************************************)

\* the degrees of this specification: the bounded ones and the default
ArithDegrees == Degrees \cup {GlobalDegreeDefault}
\* the leading values of the operands; log and exp of them are exact
LeadingValues == {-1, 0, 1}

\* variableEvaluatedAtPoint(value) of the Series kernel, on the pool's buffer
VariableSeries(res, value) ==
  WithCoefficients(res, SetAt(SetAt(res.coefficients, 0, value), 1, N(1)))
\* xEvaluatedAtPoint(value)
XSeries(res, value) == Set(Set(res, 0, 0, value), 1, 0, N(1))
\* yEvaluatedAtPoint(value)
YSeries(res, value) == Set(Set(res, 0, 0, value), 0, 1, N(1))

\* the descriptions of the operands of kernel k when the degree is n
OperandDescriptions(k, n) ==
  {d \in [kind : {"number", "constant", "x", "y"}, value : LeadingValues,
          n : ArithDegrees] :
     /\ d.kind = "number" => d.n = n
     /\ d.kind = "y" => k = "Series2D"}

\* the operand a description stands for, built by the pooled kernel
Built(d) ==
  IF d.kind = "number" THEN Number(N(d.value))
  ELSE IF d.kind = "constant"
  THEN ConstantValue(NewSeries(kernel, d.n), N(d.value))
  ELSE IF kernel = "Series"
  THEN VariableSeries(NewSeries(kernel, d.n), N(d.value))
  ELSE IF d.kind = "x"
  THEN XSeries(NewSeries(kernel, d.n), N(d.value))
  ELSE YSeries(NewSeries(kernel, d.n), N(d.value))

\* the operand a description stands for, built by series.ts
BuiltUnpooled(d) ==
  IF d.kind = "number" THEN Number(N(d.value))
  ELSE IF d.kind = "constant" THEN SeriesCreate(d.n, N(d.value), N(0))
  ELSE SeriesCreate(d.n, N(d.value), N(1))

\* the operations of the kernel in force, the pool handing out a new buffer
KernelMultiply(a, b) ==
  IF kernel = "Series"
  THEN Multiply(NewSeries(kernel, degree), a, b)
  ELSE Multiply2D(NewSeries(kernel, degree), a, b)
KernelDivide(a, b) ==
  IF kernel = "Series"
  THEN Divide(NewSeries(kernel, degree), a, b)
  ELSE Divide2D(NewSeries(kernel, degree), a, b)
KernelLog(a) ==
  IF kernel = "Series"
  THEN Log(NewSeries(kernel, degree), a)
  ELSE Log2D(NewSeries(kernel, degree), a)
KernelPow(a, b) ==
  IF kernel = "Series"
  THEN Pow(NewSeries(kernel, degree), a, b)
  ELSE Pow2D(NewSeries(kernel, degree), a, b)

InitArith ==
  /\ kernel \in Kernels
  /\ degree \in ArithDegrees
  /\ pool = EmptyPool
  /\ scopes = 0
  /\ returned = <<>>
  /\ handed = <<>>
  /\ evalResult = <<>>
  /\ ParserIdle
  /\ calc \in [a : OperandDescriptions(kernel, degree),
               b : OperandDescriptions(kernel, degree),
               op : {"none"},
               c : {<<>>}]

\* pow(a, b)
PowAB == Applied("pow", KernelPow(Built(calc.a), Built(calc.b)))
\* pow(a, b) of series.ts
PowABUnpooled ==
  /\ kernel = "Series"
  /\ Applied("pow of series.ts",
             PowUnpooled(degree, BuiltUnpooled(calc.a), BuiltUnpooled(calc.b)))
\* log(a)
LogA == Applied("log", KernelLog(Built(calc.a)))
\* log(a) of series.ts
LogAUnpooled ==
  /\ kernel = "Series"
  /\ Applied("log of series.ts", LogUnpooled(BuiltUnpooled(calc.a)))
\* add(a, b)
AddAB == Applied("add", KernelAdd(Built(calc.a), Built(calc.b)))
\* subtract(a, b)
SubtractAB == Applied("subtract", KernelSubtract(Built(calc.a), Built(calc.b)))
\* multiply(a, b)
MultiplyAB == Applied("multiply", KernelMultiply(Built(calc.a), Built(calc.b)))
\* divide(a, b)
DivideAB == Applied("divide", KernelDivide(Built(calc.a), Built(calc.b)))

NextArith ==
  \/ PowAB
  \/ PowABUnpooled
  \/ LogA
  \/ LogAUnpooled
  \/ AddAB
  \/ SubtractAB
  \/ MultiplyAB
  \/ DivideAB

SpecArith == InitArith /\ [][NextArith]_vars

\* the result is a series of the shape in force, every coefficient NaN
AllNaN(c) ==
  /\ IsSeries(c)
  /\ Len(c.coefficients) = ShapeOf(kernel, degree)
  /\ \A i \in 1..Len(c.coefficients) : c.coefficients[i] = NaN

\* C11: pow(a, b) with a negative scalar base, or a series base whose
\* leading coefficient is negative, returns without raising a series of the
\* current shape in which every coefficient is NaN, for every exponent b,
\* in the univariate kernels and in the bivariate kernel.
PowNegativeBaseAllNaN ==
  (calc # <<>> /\ calc.op \in {"pow", "pow of series.ts"}
     /\ IsNegative(Built(calc.a))) => AllNaN(calc.c)

\* the same of the pooled kernels alone: there it holds
PowNegativeBaseAllNaNPooled ==
  (calc # <<>> /\ calc.op = "pow" /\ IsNegative(Built(calc.a))) => AllNaN(calc.c)

\* the leading value of an operand: the number, or coefficient 0
Leading(a) == IF a.type = "number" THEN a.value ELSE At(a.coefficients, 0)
\* the argument of the log that was applied
LogArgument ==
  IF calc.op = "log" THEN Built(calc.a) ELSE BuiltUnpooled(calc.a)

\* C17: log signals a domain error whenever its argument is a scalar that
\* is not greater than 0 or a series whose leading coefficient is not
\* greater than 0; it returns a result only when the leading value is
\* strictly positive.
LogDomainError ==
  (calc # <<>> /\ calc.op \in {"log", "log of series.ts"}) =>
    (calc.c.type = "throw" <=> ~NumLess(N(0), Leading(LogArgument)))

\* what the code does: log throws exactly when its argument is a negative
\* number or a univariate series whose leading coefficient is negative
LogThrowsOnNegativeUnivariate ==
  (calc # <<>> /\ calc.op \in {"log", "log of series.ts"}) =>
    (calc.c.type = "throw" <=>
       /\ NumLess(Leading(LogArgument), N(0))
       /\ LogArgument.type \in {"number", "Series"})

\* both operands are series, and they differ in length
LengthsDiffer ==
  /\ IsSeries(Built(calc.a))
  /\ IsSeries(Built(calc.b))
  /\ Len(Built(calc.a).coefficients) # Len(Built(calc.b).coefficients)

\* C18: add, subtract, multiply and divide applied to two series operands
\* of different lengths fail with an error; they never return a result
\* series built from coefficients read past the end of the shorter operand.
LengthMismatchFailsFast ==
  (calc # <<>> /\ calc.op \in {"add", "subtract", "multiply", "divide"}
     /\ LengthsDiffer) => calc.c.type = "throw"

\* the scalar operand s as the constant series [s, 0, ..., 0]
AsConstantSeries(a) == ConstantValue(NewSeries(kernel, degree), a.value)
\* a is a scalar and b a series of the shape in force with b0 # 0
ScalarAndSeries ==
  /\ Built(calc.a).type = "number"
  /\ IsSeries(Built(calc.b))
  /\ calc.b.n = degree
  /\ Leading(Built(calc.b)) # N(0)

\* multiply(s, b) equals multiply(constantValue(s), b)
MultiplyScalarAsConstantSeries ==
  (calc # <<>> /\ calc.op = "multiply" /\ ScalarAndSeries) =>
    calc.c = KernelMultiply(AsConstantSeries(Built(calc.a)), Built(calc.b))

\* C19: for multiply and divide a scalar operand s gives the same result as
\* the constant series [s, 0, ..., 0]: for every scalar s and series b with
\* b0 # 0, divide(s, b) equals divide(constantValue(s), b) and
\* multiply(s, b) equals multiply(constantValue(s), b), in both kernels.
ScalarAsConstantSeries ==
  /\ MultiplyScalarAsConstantSeries
  /\ (calc # <<>> /\ calc.op = "divide" /\ ScalarAndSeries) =>
       calc.c = KernelDivide(AsConstantSeries(Built(calc.a)), Built(calc.b))

(***************************************************************************)
(* dConvolve on grids of coefficients.  A grid has a(x, y) = p + q*x + r*y;*)
(* the two grids of the kernel's own test, 1..9 and 10..18 row by row, are *)
(* among them.                                                             *)
(***************************************************************************)

TestGridA == [p |-> 1, q |-> 1, r |-> 3]
TestGridB == [p |-> 10, q |-> 1, r |-> 3]
GridParameters ==
  [p : CoefficientValues, q : CoefficientValues, r : CoefficientValues]
    \cup {TestGridA, TestGridB}

\* the Series2D of degree n whose coefficients are those of grid g
Grid(g, n) ==
  Series2DOf([i \in 1..((n + 1) * (n + 1)) |->
                N(g.p + g.q * ((i - 1) % (n + 1)) + g.r * ((i - 1) \div (n + 1)))],
             n + 1)

InitDConvolve ==
  /\ kernel = "Series2D"
  /\ degree \in ArithDegrees
  /\ pool = EmptyPool
  /\ scopes = 0
  /\ returned = <<>>
  /\ handed = <<>>
  /\ evalResult = <<>>
  /\ ParserIdle
  /\ calc \in [a : GridParameters, b : GridParameters,
               k_x : 0..degree, k_y : 0..degree, op : {"none"}, c : {<<>>}]

\* dConvolve(a, b, k_x, k_y)
DConvolveAB ==
  Applied("dConvolve",
          DConvolve(Grid(calc.a, degree), Grid(calc.b, degree), calc.k_x, calc.k_y))

NextDConvolve == DConvolveAB

SpecDConvolve == InitDConvolve /\ [][NextDConvolve]_vars

\* the sum of the values of f over the set S
RECURSIVE SumOver(_, _)
SumOver(f, S) ==
  IF S = {} THEN N(0)
  ELSE LET e == CHOOSE e \in S : TRUE
       IN NumAdd(f[e], SumOver(f, S \ {e}))

\* the axis the claim names: 1 for x, 2 for y
AxisOf(k_x, k_y) ==
  IF k_x = 0 THEN 2
  ELSE IF k_y = 0 THEN 1
  ELSE IF k_x <= k_y THEN 1
  ELSE 2

\* (1/k_p) times the sum of j_p * a(x, y) * b(k_x - x, k_y - y) over all
\* 0 <= x <= k_x, 0 <= y <= k_y with j_p >= 1 and (x, y) # (k_x, k_y)
DerivativeConvolution(a, b, k_x, k_y) ==
  LET p == AxisOf(k_x, k_y)
      k == <<k_x, k_y>>
      points == {j \in (0..k_x) \X (0..k_y) : j[p] >= 1 /\ j # k}
      term == [j \in points |->
                 NumMul(N(j[p]),
                        NumMul(Get(a, j[1], j[2]), Get(b, k_x - j[1], k_y - j[2])))]
  IN NumDiv(SumOver(term, points), N(k[p]))

\* C20: dConvolve(a, b, kx, ky) raises when kx = 0 and ky = 0; otherwise it
\* selects axis p = y when kx = 0, p = x when ky = 0, p = x when both are
\* non-zero and kx <= ky, and p = y otherwise, and returns (1/k_p) times the
\* sum of j_p * a(x, y) * b(kx - x, ky - y) over all 0 <= x <= kx,
\* 0 <= y <= ky with j_p >= 1 and (x, y) # (kx, ky).
DConvolveAsSpecified ==
  (calc # <<>> /\ calc.op = "dConvolve") =>
    IF calc.k_x = 0 /\ calc.k_y = 0
    THEN calc.c.type = "throw"
    ELSE calc.c = Number(DerivativeConvolution(Grid(calc.a, degree),
                                               Grid(calc.b, degree),
                                               calc.k_x, calc.k_y))

\* the first expectation of the kernel's test has been computed: the grids
\* 1..9 and 10..18 at (2, 2), where k_x = k_y, give
\* (1 * (2*17 + 5*14 + 8*11) + 2 * (3*16 + 6*13)) / 2 = 222
DConvolveAsSpecifiedWitness ==
  /\ calc # <<>>
  /\ calc.op = "dConvolve"
  /\ calc.a = TestGridA
  /\ calc.b = TestGridB
  /\ calc.k_x = 2
  /\ calc.k_y = 2
  /\ calc.c = Number(N(222))

(***************************************************************************)
(* The kernel on the pool's buffers.  calc.mem holds the coefficients of   *)
(* every buffer the pool has constructed; callers pass to the kernel the   *)
(* buffers they hold, and give back to the pool buffers they hold.         *)
(***************************************************************************)

\* the number of calls made on the heap in one behaviour
MaxHeapSteps == 4
\* the number of those calls that are kernel operations
MaxHeapOperations == 2
\* the value the constructors are called with
HeapValues == {2}

\* negative(a), of both kernels
Negative(res, a) ==
  IF a.type = "number" THEN ConstantValue(res, NumNeg(a.value))
  ELSE LET copy == AllocateCopyOf(res, a)
       IN Filled(copy, [i \in 1..Len(copy.coefficients) |->
                          NumMul(copy.coefficients[i], N(-1))])

\* a clear that leaves the buffer as it is
ClearSeriesNever(s) == s

\* clearSeries(s) / clearSeries2D(s)
ClearSeries(s) == Filled(s, [i \in 1..Len(s.coefficients) |-> N(0)])

\* the object that buffer b is, its coefficients read from mem
Object(P, mem, b) ==
  IF kernel = "Series" THEN SeriesOf(mem[b]) ELSE Series2DOf(mem[b], P.side[b])

\* the buffers a caller holds: constructed and not on the free list
Held(P) == {b \in Constructed(P) : ~P.isFree[b]}

\* Pool.allocate with the buffer's coefficients: a popped buffer is cleared,
\* a new one is constructed with zeros
HeapAllocate(P, mem) ==
  LET P1 == PoolAllocate(P, kernel, degree)
      r == P1.res
      recycled == Len(P.free) > 0
      object == IF ~P1.ok THEN NewSeries(kernel, degree)
                ELSE IF recycled THEN ClearSeries(Object(P1, mem, r))
                ELSE NewSeries(kernel, degree)
  IN [pool |-> P1, r |-> r, recycled |-> recycled, object |-> object,
      mem |-> IF P1.ok THEN [mem EXCEPT ![r] = object.coefficients] ELSE mem]

\* the kernel's binary operations
BinaryOperations == {"add", "subtract", "multiply", "divide"}
Binary(o, res, a, b) ==
  IF kernel = "Series"
  THEN CASE o = "add" -> Add(res, a, b)
         [] o = "subtract" -> Subtract(res, a, b)
         [] o = "multiply" -> Multiply(res, a, b)
         [] o = "divide" -> Divide(res, a, b)
  ELSE CASE o = "add" -> Add2D(res, a, b)
         [] o = "subtract" -> Subtract2D(res, a, b)
         [] o = "multiply" -> Multiply2D(res, a, b)
         [] o = "divide" -> Divide2D(res, a, b)

InitHeap ==
  /\ kernel \in Kernels
  /\ degree \in Degrees
  /\ pool = EmptyPool
  /\ scopes = 0
  /\ returned = <<>>
  /\ handed = <<>>
  /\ evalResult = <<>>
  /\ ParserIdle
  /\ calc = [mem |-> [b \in Ids |-> <<>>], before |-> [b \in Ids |-> <<>>],
             op |-> "none", a |-> 0, b |-> 0, v |-> 0, r |-> 0,
             recycled |-> FALSE, steps |-> 0, operations |-> 0]

\* the call op(a, b) has allocated per H and left result in the buffer H.r
HeapApplied(op, a, b, v, H, result) ==
  /\ calc.steps < MaxHeapSteps
  /\ H.pool.ok
  /\ pool' = [H.pool EXCEPT !.shape[H.r] = Len(result.coefficients)]
  /\ calc' = [mem |-> [H.mem EXCEPT ![H.r] = result.coefficients],
              before |-> calc.mem,
              op |-> op, a |-> a, b |-> b, v |-> v, r |-> H.r,
              recycled |-> H.recycled, steps |-> calc.steps + 1,
              operations |-> calc.operations +
                               (IF op \in BinaryOperations \cup {"negative"}
                                THEN 1 ELSE 0)]
  /\ UNCHANGED <<kernel, degree, scopes, returned, handed, evalResult>>
  /\ UNCHANGED parserVars

\* constantValue(v)
HeapConstantValue(v) ==
  LET H == HeapAllocate(pool, calc.mem)
  IN HeapApplied("constantValue", 0, 0, v, H,
                 IF kernel = "Series" THEN ConstantValue(H.object, N(v))
                 ELSE Set(H.object, 0, 0, N(v)))

\* variableEvaluatedAtPoint(v) / xEvaluatedAtPoint(v)
HeapVariable(v) ==
  LET H == HeapAllocate(pool, calc.mem)
  IN IF kernel = "Series"
     THEN HeapApplied("variableEvaluatedAtPoint", 0, 0, v, H,
                      VariableSeries(H.object, N(v)))
     ELSE HeapApplied("xEvaluatedAtPoint", 0, 0, v, H, XSeries(H.object, N(v)))

\* yEvaluatedAtPoint(v)
HeapYVariable(v) ==
  /\ kernel = "Series2D"
  /\ LET H == HeapAllocate(pool, calc.mem)
     IN HeapApplied("yEvaluatedAtPoint", 0, 0, v, H, YSeries(H.object, N(v)))

\* add, subtract, multiply or divide of two series the caller holds
HeapBinary(o, a, b) ==
  /\ calc.operations < MaxHeapOperations
  /\ LET H == HeapAllocate(pool, calc.mem)
     IN HeapApplied(o, a, b, 0, H,
                    Binary(o, H.object, Object(H.pool, H.mem, a),
                           Object(H.pool, H.mem, b)))

\* negative(a) of a series the caller holds
HeapNegative(a) ==
  /\ calc.operations < MaxHeapOperations
  /\ LET H == HeapAllocate(pool, calc.mem)
     IN HeapApplied("negative", a, 0, 0, H,
                 Negative(H.object, Object(H.pool, H.mem, a)))

\* seriesPool.markFree(b) / b.freeToPool() of a series the caller holds
HeapMarkFree(b) ==
  /\ calc.steps < MaxHeapSteps
  /\ pool' = PoolMarkFree(pool, b)
  /\ calc' = [calc EXCEPT !.op = "markFree", !.a = b, !.b = 0, !.v = 0, !.r = 0,
                          !.recycled = FALSE, !.before = calc.mem,
                          !.steps = @ + 1]
  /\ UNCHANGED <<kernel, degree, scopes, returned, handed, evalResult>>
  /\ UNCHANGED parserVars

NextHeap ==
  \/ \E v \in HeapValues : HeapConstantValue(v)
  \/ \E v \in HeapValues : HeapVariable(v)
  \/ \E v \in HeapValues : HeapYVariable(v)
  \/ \E o \in BinaryOperations : \E a, b \in Held(pool) : HeapBinary(o, a, b)
  \/ \E a \in Held(pool) : HeapNegative(a)
  \/ \E b \in Held(pool) : HeapMarkFree(b)

SpecHeap == InitHeap /\ [][NextHeap]_vars

\* a kernel operation has just returned
IsOperation == calc # <<>> /\ calc.op \in BinaryOperations \cup {"negative"}
\* the series operands of that operation
SeriesOperands == {calc.a, calc.b} \ {0}

UnitAt(one) ==
  LET c == calc.mem[calc.r]
  IN /\ Len(c) > one
     /\ \A i \in 0..(Len(c) - 1) :
          At(c, i) = IF i = 0 THEN N(calc.v) ELSE IF i = one THEN N(1) ELSE N(0)

\* C15: variableEvaluatedAtPoint(v) returns a series with coefficients
\* [v, 1, 0, ..., 0]; xEvaluatedAtPoint(v) returns a grid with c(0,0) = v,
\* c(1,0) = 1 and all other cells 0; yEvaluatedAtPoint(v) returns a grid
\* with c(0,0) = v, c(0,1) = 1 and all other cells 0; also when the buffer
\* is a recycled one that previously held other values.
VariableCoefficients ==
  /\ (calc # <<>> /\ calc.op = "variableEvaluatedAtPoint") => UnitAt(1)
  /\ (calc # <<>> /\ calc.op = "xEvaluatedAtPoint") =>
       /\ UnitAt(1)
       /\ Get(Object(pool, calc.mem, calc.r), 0, 0) = N(calc.v)
       /\ Get(Object(pool, calc.mem, calc.r), 1, 0) = N(1)
  /\ (calc # <<>> /\ calc.op = "yEvaluatedAtPoint") =>
       /\ UnitAt(pool.side[calc.r])
       /\ Get(Object(pool, calc.mem, calc.r), 0, 0) = N(calc.v)
       /\ Get(Object(pool, calc.mem, calc.r), 0, 1) = N(1)

\* a variable has been made in a recycled buffer that held a value other
\* than 0 where the variable has 0
VariableCoefficientsWitness ==
  /\ calc # <<>>
  /\ calc.op \in {"variableEvaluatedAtPoint", "xEvaluatedAtPoint",
                  "yEvaluatedAtPoint"}
  /\ calc.recycled
  /\ \E i \in 1..Len(calc.before[calc.r]) :
       /\ calc.before[calc.r][i] # N(0)
       /\ calc.mem[calc.r][i] = N(0)

\* C16: for every degree n, including n = 0, every series produced by the
\* kernel (variableEvaluatedAtPoint, constantValue and every operation
\* result) has exactly n + 1 coefficients, and every Series2D
\* (xEvaluatedAtPoint, yEvaluatedAtPoint and every operation result) has
\* exactly (n + 1) * (n + 1) coefficients.
LengthOfDegree ==
  (calc # <<>> /\ calc.op \in BinaryOperations \cup
       {"negative", "constantValue", "variableEvaluatedAtPoint",
        "xEvaluatedAtPoint", "yEvaluatedAtPoint"}) =>
    Len(calc.mem[calc.r]) = ShapeOf(kernel, degree)

\* the same of the degrees from 1 on: there it holds
LengthOfPositiveDegree == degree >= 1 => LengthOfDegree

(***************************************************************************)
(* factorial and toValueAndDerivatives.  The factorials past 12! do not    *)
(* fit the integers of the checker, so a factorial is kept as its digits   *)
(* in base Radix, the least significant first, and 0 as the empty          *)
(* sequence; every value here is an integer a JavaScript number holds      *)
(* exactly.                                                                *)
(***************************************************************************)

\* the largest argument factorial is called with, and the largest degree
MaxFactorialArgument == 15
\* the largest degree of a Series2D whose derivatives are taken
MaxGridDegree == 3
Radix == 10000

\* the digits of a natural number
RECURSIVE BigOf(_)
BigOf(n) == IF n = 0 THEN <<>> ELSE <<n % Radix>> \o BigOf(n \div Radix)

\* a * m for digits a and a natural number m below Radix, carry added
RECURSIVE BigTimesFrom(_, _, _)
BigTimesFrom(a, m, carry) ==
  IF a = <<>> THEN BigOf(carry)
  ELSE LET t == a[1] * m + carry
       IN <<t % Radix>> \o BigTimesFrom(Tail(a), m, t \div Radix)
BigTimes(a, m) == IF m = 0 THEN <<>> ELSE BigTimesFrom(a, m, 0)

\* a + b for digits a and b, carry added
RECURSIVE BigAddFrom(_, _, _)
BigAddFrom(a, b, carry) ==
  IF a = <<>> /\ b = <<>> THEN BigOf(carry)
  ELSE LET x == IF a = <<>> THEN 0 ELSE a[1]
           y == IF b = <<>> THEN 0 ELSE b[1]
           t == x + y + carry
       IN <<t % Radix>> \o BigAddFrom(IF a = <<>> THEN a ELSE Tail(a),
                                      IF b = <<>> THEN b ELSE Tail(b),
                                      t \div Radix)

\* a * b for digits a and b
RECURSIVE BigMul(_, _)
BigMul(a, b) ==
  IF a = <<>> \/ b = <<>> THEN <<>>
  ELSE LET rest == BigMul(a, Tail(b))
       IN BigAddFrom(BigTimes(a, b[1]), IF rest = <<>> THEN rest ELSE <<0>> \o rest, 0)

\* coefficient * factorial: an integer coefficient times digits, as
\* <<sign, digits>>
NumTimesBig(x, big) == <<Sgn(x[1]), BigTimes(big, Abs(x[1]))>>

\* const factorialValues = [ 1, 1, 2, 6, ..., 479001600 ]
FactorialValues ==
  [i \in 1..13 |->
     BigOf(<<1, 1, 2, 6, 24, 120, 720, 5040, 40320, 362880, 3628800,
             39916800, 479001600>>[i])]

\* a factorial that does not keep what it computed
PushNever(table, result) == table

\* factorialValues.push(result)
Push(table, result) == Append(table, result)

\* factorial(i) on the table as it is: the table afterwards, the value
\* returned, and whether it threw
RECURSIVE Factorial(_, _)
Factorial(table, i) ==
  IF i < Len(table)
  THEN [table |-> table, value |-> table[i + 1], threw |-> FALSE]
  ELSE LET before == Factorial(table, i - 1)
           result == BigTimes(before.value, i)
       IN IF before.threw THEN before
          ELSE IF Len(before.table) # i
          THEN [table |-> before.table, value |-> <<>>, threw |-> TRUE]
          ELSE [table |-> Push(before.table, result), value |-> result,
                threw |-> FALSE]

\* the loop of toValueAndDerivatives(s) of the Series kernel, from i on
RECURSIVE DerivativesFrom(_, _, _, _)
DerivativesFrom(table, s, i, derivatives) ==
  IF i >= Len(s.coefficients)
  THEN [table |-> table, value |-> derivatives, threw |-> FALSE]
  ELSE LET f == Factorial(table, i)
       IN IF f.threw THEN f
          ELSE DerivativesFrom(f.table, s, i + 1,
                 Append(derivatives, NumTimesBig(At(s.coefficients, i), f.value)))
ToValueAndDerivatives(table, s) == DerivativesFrom(table, s, 0, <<>>)

\* the loops of toValueAndDerivatives(s) of the Series2D kernel, t counting
\* their turns
RECURSIVE Derivatives2DFrom(_, _, _, _)
Derivatives2DFrom(table, s, t, derivatives) ==
  IF t >= s.size * s.size
  THEN [table |-> table, value |-> derivatives, threw |-> FALSE]
  ELSE LET y == t \div s.size
           x == t % s.size
           fx == Factorial(table, x)
           fy == Factorial(fx.table, y)
       IN IF fx.threw THEN fx
          ELSE IF fy.threw THEN fy
          ELSE Derivatives2DFrom(fy.table, s, t + 1,
                 Append(derivatives,
                        NumTimesBig(Get(s, x, y), BigMul(fx.value, fy.value))))
ToValueAndDerivatives2D(table, s) == Derivatives2DFrom(table, s, 0, <<>>)

\* the series of degree n with coefficients p, q, p, q, ...
Alternating(p, q, n) ==
  SeriesOf([i \in 1..(n + 1) |-> IF i % 2 = 1 THEN N(p) ELSE N(q)])

\* the factorial table is as the module defines it; the degree is set
InitDerivatives ==
  /\ kernel \in Kernels
  /\ degree \in 0..(IF kernel = "Series" THEN MaxFactorialArgument ELSE MaxGridDegree)
  /\ pool = EmptyPool
  /\ scopes = 0
  /\ returned = <<>>
  /\ handed = <<>>
  /\ evalResult = <<>>
  /\ ParserIdle
  /\ calc = [table |-> FactorialValues, op |-> "none", i |-> 0, s |-> <<>>,
             c |-> <<>>, threw |-> FALSE]

\* the call op, of argument i or s, has returned per f
Derived(op, i, s, f) ==
  /\ calc' = [table |-> f.table, op |-> op, i |-> i, s |-> s, c |-> f.value,
              threw |-> f.threw]
  /\ UNCHANGED <<kernel, degree, pool, scopes, returned, handed, evalResult>>
  /\ UNCHANGED parserVars

\* factorial(i)
RequestFactorial(i) == Derived("factorial", i, <<>>, Factorial(calc.table, i))

\* toValueAndDerivatives(s) of a Series
DerivativesOfSeries(p, q) ==
  /\ kernel = "Series"
  /\ LET s == Alternating(p, q, degree)
     IN Derived("toValueAndDerivatives", 0, s, ToValueAndDerivatives(calc.table, s))

\* toValueAndDerivatives(s) of a Series2D
DerivativesOfSeries2D(g) ==
  /\ kernel = "Series2D"
  /\ LET s == Grid(g, degree)
     IN Derived("toValueAndDerivatives2D", 0, s,
                ToValueAndDerivatives2D(calc.table, s))

NextDerivatives ==
  \/ \E i \in 0..MaxFactorialArgument : RequestFactorial(i)
  \/ \E p, q \in CoefficientValues : DerivativesOfSeries(p, q)
  \/ \E g \in GridParameters : DerivativesOfSeries2D(g)

SpecDerivatives == InitDerivatives /\ [][NextDerivatives]_vars

\* i! as the product 1 * 2 * ... * i
RECURSIVE FactorialOf(_)
FactorialOf(i) == IF i = 0 THEN BigOf(1) ELSE BigTimes(FactorialOf(i - 1), i)

\* C13: for every series a of degree d and every i <= d,
\* toValueAndDerivatives(a)[i] equals a.coefficients[i] * i!, also for i
\* greater than 12, beyond the precomputed table, whatever the order in
\* which factorial values were requested before, and factorial never raises.
DerivativesTimesFactorial ==
  /\ (calc # <<>> /\ calc.op = "factorial") =>
       /\ ~calc.threw
       /\ calc.c = FactorialOf(calc.i)
  /\ (calc # <<>> /\ calc.op = "toValueAndDerivatives") =>
       /\ ~calc.threw
       /\ Len(calc.c) = Len(calc.s.coefficients)
       /\ \A i \in 0..(Len(calc.c) - 1) :
            calc.c[i + 1] = NumTimesBig(calc.s.coefficients[i + 1], FactorialOf(i))

\* the derivatives of a series of degree 14 have been taken, the entry of
\* order 13 being 2 * 13! = 12454041600
DerivativesTimesFactorialWitness ==
  /\ calc # <<>>
  /\ calc.op = "toValueAndDerivatives"
  /\ Len(calc.c) = 15
  /\ calc.s.coefficients[14] = N(2)
  /\ calc.c[14] = <<1, <<1600, 5404, 124>>>>

\* the coefficient at flat index y * size + x of the grid
Cell(s, x, y) == s.coefficients[y * s.size + x + 1]

\* C14: toValueAndDerivatives of a Series2D with grid side s returns exactly
\* s * s entries, and the entry at flat index y * s + x equals coefficient
\* c(x, y) * x! * y!, x being the derivative order in the first independent
\* variable and y the order in the second.
Derivatives2DTimesFactorials ==
  (calc # <<>> /\ calc.op = "toValueAndDerivatives2D") =>
    /\ ~calc.threw
    /\ Len(calc.c) = calc.s.size * calc.s.size
    /\ \A x, y \in 0..(calc.s.size - 1) :
         calc.c[y * calc.s.size + x + 1] =
           NumTimesBig(Cell(calc.s, x, y), BigMul(FactorialOf(x), FactorialOf(y)))

\* the derivatives of the test grid 1..9 have been taken: the entry of
\* order 2 in x and 1 in y, at flat index 5, is 6 * 2! * 1! = 12
Derivatives2DTimesFactorialsWitness ==
  /\ calc # <<>>
  /\ calc.op = "toValueAndDerivatives2D"
  /\ calc.s = Grid(TestGridA, 2)
  /\ calc.c[6] = <<1, <<12>>>>

(***************************************************************************)
(* Properties of the parser's error reports and of the shape of its trees. *)
(***************************************************************************)
OperatorTexts == {"+", "-", "*", "/", "^"}
\* the operators that have no prefix handler
BinaryOnlyTexts == {"*", "/", "^"}
\* every piece of the source is matched by the tokenizer
Tokenizable(source) == \A i \in 1..Len(source) : IsMatch(source[i])
\* the places of the operators whose next token has no prefix handler: the
\* end of the input, a right parenthesis or a binary-only operator
Dangling(tokens) ==
  {i \in 1..Len(tokens) :
     /\ tokens[i] \in OperatorTexts
     /\ \/ i = Len(tokens)
        \/ tokens[i + 1] \in BinaryOnlyTexts \cup {")"}}
ExpectedAfter(op) == <<"We expected something after the operator ", op>>
LeastOf(S) == CHOOSE i \in S : \A j \in S : i <= j

\* C21 as stated: whenever the token after a binary or prefix operator has no
\* prefix handler, parseExpression returns a null AST and the message
\* 'We expected something after the operator <op>' naming that operator.
OperandMissingAlwaysReported ==
  (IsParse /\ Tokenizable(src)) =>
    \A i \in Dangling(WithStars(SourceTokens(src))) :
       /\ out[2].expression = Null
       /\ out[2].userReadableError = ExpectedAfter(WithStars(SourceTokens(src))[i])

\* the tokens up to the operator at place i, completed with an operand and
\* with the right parentheses that are still missing
RECURSIVE Repeated(_, _)
Repeated(piece, k) == IF k <= 0 THEN <<>> ELSE <<piece>> \o Repeated(piece, k - 1)
OccurrencesOf(piece, tokens) == Cardinality({j \in 1..Len(tokens) : tokens[j] = piece})
Completed(tokens, i) ==
  LET cut == SubSeq(tokens, 1, i)
  IN cut \o <<"x">>
         \o Repeated(")", OccurrencesOf("(", cut) - OccurrencesOf(")", cut))

\* C21: when the source, cut after the leftmost operator whose next token
\* has no prefix handler and completed with an operand and the missing right
\* parentheses, is well formed ('x +', 'x + (y +', '(x +) *'), parseExpression
\* returns a null AST and the message 'We expected something after the
\* operator <op>' naming that operator; and whenever it returns that message
\* the AST is null and <op> is that leftmost operator.
OperandMissingReported ==
  IsParse =>
    LET tokens == WithStars(SourceTokens(src))
    IN /\ \A op \in OperatorTexts :
            out[2].userReadableError = ExpectedAfter(op) =>
              /\ out[2].expression = Null
              /\ Tokenizable(src)
              /\ Dangling(tokens) # {}
              /\ tokens[LeastOf(Dangling(tokens))] = op
       /\ ( /\ Tokenizable(src)
            /\ Dangling(tokens) # {}
            /\ ParseExpression(
                 Completed(tokens, LeastOf(Dangling(tokens)))).expression # Null )
            => /\ out[2].expression = Null
               /\ out[2].userReadableError =
                    ExpectedAfter(tokens[LeastOf(Dangling(tokens))])
OperandMissingReportedWitness ==
  /\ IsParse
  /\ src = <<"x", "+", "(", "x", "+">>
  /\ out[2].expression = Null
  /\ out[2].userReadableError = ExpectedAfter("+")

\* every callee in the tree is an identifier that names a supported function
RECURSIVE CalleesSupported(_)
CalleesSupported(node) ==
  IF node[1] \in {"LITERAL", "IDENTIFIER"} THEN TRUE
  ELSE IF node[1] = "GROUP" THEN CalleesSupported(node[2])
  ELSE IF node[1] = "PREFIX_OPERATOR" THEN CalleesSupported(node[3])
  ELSE IF node[1] = "FUNCTION_CALL"
  THEN /\ node[2][1] = "IDENTIFIER"
       /\ node[2][2].value \in SupportedFunctions
       /\ CalleesSupported(node[3])
  ELSE CalleesSupported(node[3]) /\ CalleesSupported(node[4])
\* the number of nodes of a type in the tree
RECURSIVE NodesOfType(_, _)
NodesOfType(type, node) ==
  (IF node[1] = type THEN 1 ELSE 0)
  + (IF node[1] \in {"LITERAL", "IDENTIFIER"} THEN 0
     ELSE IF node[1] = "GROUP" THEN NodesOfType(type, node[2])
     ELSE IF node[1] = "PREFIX_OPERATOR" THEN NodesOfType(type, node[3])
     ELSE IF node[1] = "FUNCTION_CALL" THEN NodesOfType(type, node[3])
     ELSE NodesOfType(type, node[3]) + NodesOfType(type, node[4]))
\* the left parentheses of the source that follow a supported function name
CallParens(tokens) ==
  {i \in 2..Len(tokens) : tokens[i] = "(" /\ tokens[i - 1] \in SupportedFunctions}
GroupParens(tokens) ==
  {i \in 1..Len(tokens) : tokens[i] = "(" /\ i \notin CallParens(tokens)}

\* C28: in every AST returned by parseExpression the callee of every
\* FUNCTION_CALL node is an identifier naming a supported function; there is
\* one call per '(' that follows a supported function name and one group per
\* other '(', and a '(' that follows a literal, a ')' or another identifier
\* is the group operand of an implicit multiplication.
CalleeIsSupportedFunction ==
  (IsParse /\ out[2].expression # Null) =>
    LET tokens == SourceTokens(src)
        yield == Yield(out[2].expression)
    IN /\ CalleesSupported(out[2].expression)
       /\ NodesOfType("FUNCTION_CALL", out[2].expression)
            = Cardinality(CallParens(tokens))
       /\ NodesOfType("GROUP", out[2].expression)
            = Cardinality(GroupParens(tokens))
       /\ \A j \in GroupParens(yield) :
            j > 1 => yield[j - 1] \in OperatorTexts \cup {"("}
CalleeIsSupportedFunctionWitness ==
  /\ IsParse
  /\ \E i \in 2..Len(src) : src[i] = "(" /\ src[i - 1] \in {"x", "2", ")"}
  /\ out[2].expression # Null
  /\ NodesOfType("FUNCTION_CALL", out[2].expression) = 0
  /\ NodesOfType("GROUP", out[2].expression) > 0

\* no right operand of a binary operator is a binary operator of the same
\* precedence: operators of equal precedence group to the left
RECURSIVE GroupsLeft(_)
GroupsLeft(node) ==
  IF node[1] \in {"LITERAL", "IDENTIFIER"} THEN TRUE
  ELSE IF node[1] = "GROUP" THEN GroupsLeft(node[2])
  ELSE IF node[1] \in {"PREFIX_OPERATOR", "FUNCTION_CALL"} THEN GroupsLeft(node[3])
  ELSE /\ node[4][1] = "BINARY_OPERATOR"
            => OperatorRank(node[4][2].value) # OperatorRank(node[2].value)
       /\ GroupsLeft(node[3])
       /\ GroupsLeft(node[4])

\* C29: binary operators of equal precedence group to the left in every AST
\* returned by parseExpression: a - b - c is (a - b) - c, a / b / c is
\* (a / b) / c, a - b + c is (a - b) + c and a ^ b ^ c is (a ^ b) ^ c.
EqualPrecedenceGroupsLeft ==
  IsParse =>
    /\ out[2].expression # Null => GroupsLeft(out[2].expression)
    /\ src = <<"x", "-", "2", "-", "x">> =>
         out[2].expression =
           Bin("MINUS", "-", Bin("MINUS", "-", Id("x"), Lit("2")), Id("x"))
    /\ src = <<"x", "/", "2", "/", "x">> =>
         out[2].expression =
           Bin("DIVIDE", "/", Bin("DIVIDE", "/", Id("x"), Lit("2")), Id("x"))
    /\ src = <<"x", "-", "2", "+", "x">> =>
         out[2].expression =
           Bin("PLUS", "+", Bin("MINUS", "-", Id("x"), Lit("2")), Id("x"))
    /\ src = <<"x", "^", "2", "^", "x">> =>
         out[2].expression =
           Bin("POW", "^", Bin("POW", "^", Id("x"), Lit("2")), Id("x"))
EqualPrecedenceGroupsLeftWitness ==
  /\ IsParse
  /\ src = <<"x", "^", "2", "^", "x">>
  /\ out[2].expression =
       Bin("POW", "^", Bin("POW", "^", Id("x"), Lit("2")), Id("x"))

(***************************************************************************)
(* Properties of compilation.                                              *)
(***************************************************************************)
\* the source parses to a tree that has, as an operand at any depth, an
\* identifier that is not among the declared variables
UsesUndeclared(source, declared) ==
  /\ ParseExpression(source).expression # Null
  /\ \E name \in IdentifiersOf(ParseExpression(source).expression) :
       \A i \in 1..Len(declared) : declared[i] # name

\* C22: compiling an expression that has, at any depth, an identifier operand
\* that is not a declared independent variable fails during translation: the
\* compile function raises, no evaluator is returned, no kernel operation is
\* run and no pool buffer is allocated.
UndeclaredIdentifierFailsTranslation ==
  (IsCompile /\ UsesUndeclared(src, out[3])) =>
    /\ out[2].st = "throw"
    /\ out[2].code = <<>>
    /\ \E name \in IdentifiersOf(ParseExpression(src).expression) :
         out[2].message =
           <<"That expression contains an identifier that isn't an independent variable:", name>>
    /\ pool = EmptyPool
    /\ KernelIdle
    /\ evalResult = <<>>
UndeclaredIdentifierFailsTranslationWitness ==
  /\ IsCompile
  /\ out[3] = <<"t">>
  /\ src = <<"-", "sin", "(", "x", ")">>
  /\ out[2].st = "throw"

(***************************************************************************)
(* Further properties of the pool and of the compiled evaluators.          *)
(***************************************************************************)
\* the record s begins with the record r
Extends(s, r) == Len(s) >= Len(r) /\ SubSeq(s, 1, Len(r)) = r

\* C23: while a scope is active on the pool, a nested start of a scope is
\* rejected: every step either ends the active scope or leaves the pool
\* tracking with the record of the active scope kept (only extended).
NestedScopeRejected ==
  [][(scopes > 0 /\ pool.tracking) =>
       \/ scopes' < scopes
       \/ pool'.tracking /\ Extends(pool'.tracked, pool.tracked)]_vars

(***************************************************************************)
(* The list helper negative and subtract(number, Series) of series.ts,     *)
(* one loop step at a time.  calc is the frame of the call:                *)
(*   fn      the function called, "none" before the call                   *)
(*   scalar  the number a of subtract(a, b)                                *)
(*   copy    the copy of the list made by slice()                          *)
(*   i       the loop variable                                             *)
(*   pc      "idle", "test" (i < copy.length), "body", "return", "done"    *)
(*   result  the value returned                                            *)
(***************************************************************************)
\* longest list given to list.negative directly
MaxListLen == 2

Lists(n) == [1..n -> {N(v) : v \in CoefficientValues}]

InitList ==
  /\ kernel = "Series"
  /\ degree \in ArithDegrees
  /\ pool = EmptyPool
  /\ scopes = 0
  /\ returned = <<>>
  /\ handed = <<>>
  /\ evalResult = <<>>
  /\ ParserIdle
  /\ calc = [fn |-> "none", scalar |-> Undefined, copy |-> <<>>, i |-> 0,
             pc |-> "idle", result |-> <<>>]

\* list.negative(a): const copy = a.slice(); let i = 0
ListNegative(a) ==
  /\ calc.pc = "idle"
  /\ calc' = [calc EXCEPT !.fn = "negative", !.copy = a, !.i = 0, !.pc = "test"]
  /\ UNCHANGED poolVars
  /\ UNCHANGED parserVars

\* subtract(a, b) of series.ts for a number a and a Series b:
\* const copy = list.negative(b.coefficients)
SubtractNumberSeries(a, b) ==
  /\ calc.pc = "idle"
  /\ calc' = [calc EXCEPT !.fn = "subtract", !.scalar = N(a), !.copy = b,
                          !.i = 0, !.pc = "test"]
  /\ UNCHANGED poolVars
  /\ UNCHANGED parserVars

\* the loop condition of list.negative: i < copy.length
NegativeLoopTest ==
  /\ calc.pc = "test"
  /\ calc' = [calc EXCEPT !.pc = IF calc.i < Len(calc.copy) THEN "body" ELSE "return"]
  /\ UNCHANGED poolVars
  /\ UNCHANGED parserVars

\* the loop body and increment of list.negative: i *= -1, then i++
NegativeLoopBody ==
  /\ calc.pc = "body"
  /\ calc' = [calc EXCEPT !.i = (calc.i * (-1)) + 1, !.pc = "test"]
  /\ UNCHANGED poolVars
  /\ UNCHANGED parserVars

\* return copy; in subtract: copy[0] += a; return new Series(copy, MOVE)
NegativeReturn ==
  /\ calc.pc = "return"
  /\ calc' = [calc EXCEPT
       !.result = IF calc.fn = "negative" THEN calc.copy
                  ELSE SeriesOf(SetAt(calc.copy, 0,
                                      NumAdd(At(calc.copy, 0), calc.scalar))),
       !.pc = "done"]
  /\ UNCHANGED poolVars
  /\ UNCHANGED parserVars

NextList ==
  \/ \E n \in 0..MaxListLen : \E a \in Lists(n) : ListNegative(a)
  \/ \E a \in CoefficientValues : \E b \in Lists(degree + 1) :
       SubtractNumberSeries(a, b)
  \/ NegativeLoopTest
  \/ NegativeLoopBody
  \/ NegativeReturn

\* the engine goes on running a call that has a step to take
SpecList == InitList /\ [][NextList]_vars /\ WF_vars(NextList)

\* C24: every call of list.negative, and of subtract(number, Series) which
\* calls it, returns, whatever the length of the list.
ListNegativeTerminates ==
  (calc.pc = "test") ~> (calc.pc = "done")

(***************************************************************************)
(* Calls of compiled one-variable functions, with the values they compute. *)
(* The function compiled from an expression with variable v is             *)
(*   new Function(v, "s", "return s.toValueAndDerivatives(<code>)")        *)
(* wrapped in seriesPool.trackAndReleaseAllocations; <code> has one kernel *)
(* call per node of the expression, so running it is a walk of the tree.   *)
(* A run is a record: the pool, mem (the coefficients of each buffer),     *)
(* threw, full (the pool of the model has no buffer left) and val, the     *)
(* value of the code run last: a number or a series, by its buffer.        *)
(***************************************************************************)
\* calls of compiled functions in one behaviour
MaxCalls == 3

\* the points the functions are called at: log raises at -1, v / v is NaN at 0
CallPoints == {-1, 0, 1}
\* the names the functions are compiled with
VariableNames == {"x", "t", "s"}

Call(fn, a) == <<"FUNCTION_CALL", Id(fn), a>>
\* the expressions compiled, written with the variable v:
\* v, 2 + 2, v / v, log(v)
CompiledExpressions(v) ==
  << Id(v),
     Bin("PLUS", "+", Lit("2"), Lit("2")),
     Bin("DIVIDE", "/", Id(v), Id(v)),
     Call("log", Id(v)) >>
\* the compiled functions: an expression and the name of its variable
Functions == (1..4) \X VariableNames

NumberValue(value) == [kind |-> "number", value |-> value, b |-> 0]
SeriesValue(b) == [kind |-> "series", value |-> NaN, b |-> b]
\* the operand a value is for the kernel
OperandOf(run, val) ==
  IF val.kind = "number" THEN Number(val.value) ELSE SeriesOf(run.mem[val.b])

\* parseFloat of the text of a literal of the model
LiteralValue(text) == IF text = "2" THEN N(2) ELSE NaN

\* the kernel function fn on the buffer res that seriesPool.allocate() returns
KernelApply(fn, res, a, b) ==
  CASE fn = "variableEvaluatedAtPoint" -> VariableSeries(res, a.value)
    [] fn = "add" -> Add(res, a, b)
    [] fn = "subtract" -> Subtract(res, a, b)
    [] fn = "multiply" -> Multiply(res, a, b)
    [] fn = "divide" -> Divide(res, a, b)
    [] fn = "negative" -> Negative(res, a)
    [] fn = "log" -> Log(res, a)
    [] fn = "exp" -> Exp(res, a)

\* Then(value), the value worked out once
Once(value, Then(_)) == CHOOSE r \in {Then(v) : v \in {value}} : TRUE

\* s.fn(a, b): the kernel function allocates its result from the pool unless
\* it throws first
KernelCall(run, fn, a, b) ==
  Once(HeapAllocate(run.pool, run.mem), LAMBDA H :
    Once(KernelApply(fn, H.object, OperandOf(run, a), OperandOf(run, b)),
         LAMBDA result :
      IF result.type = "throw" THEN [run EXCEPT !.threw = TRUE]
      ELSE IF ~H.pool.ok THEN [run EXCEPT !.full = TRUE]
      ELSE [run EXCEPT
              !.pool = [H.pool EXCEPT !.shape[H.r] = Len(result.coefficients)],
              !.mem = [H.mem EXCEPT ![H.r] = result.coefficients],
              !.val = SeriesValue(H.r)]))

\* the value of an identifier of the generated code: the parameters are
\* (v, "s") and the arguments (x, seriesAPI); of two parameters of the same
\* name the last one is bound
Lookup(name, v, x) == IF name = "s" THEN ApiObject ELSE N(x)

\* the function of the API an operator is compiled to
OperatorFunction(op) ==
  CASE op = "+" -> "add"
    [] op = "-" -> "subtract"
    [] op = "*" -> "multiply"
    [] op = "/" -> "divide"

\* the code generateJavascriptForExpression emits for node, run
RECURSIVE RunCode(_, _, _, _)
RunCode(run, node, v, x) ==
  IF run.threw \/ run.full THEN run
  ELSE IF node[1] = "LITERAL"
  THEN [run EXCEPT !.val = NumberValue(LiteralValue(node[2].value))]
  ELSE IF node[1] = "IDENTIFIER"
  THEN KernelCall(run, "variableEvaluatedAtPoint",
                  NumberValue(Lookup(node[2].value, v, x)), NumberValue(NaN))
  ELSE IF node[1] = "BINARY_OPERATOR"
  THEN Once(RunCode(run, node[3], v, x), LAMBDA first :
         Once(RunCode(first, node[4], v, x), LAMBDA second :
           IF second.threw \/ second.full THEN second
           ELSE KernelCall(second, OperatorFunction(node[2].value),
                           first.val, second.val)))
  ELSE IF node[1] = "FUNCTION_CALL"
  THEN Once(RunCode(run, node[3], v, x), LAMBDA argument :
         IF argument.threw \/ argument.full THEN argument
         ELSE KernelCall(argument, node[2][2].value, argument.val, NumberValue(NaN)))
  ELSE IF node[1] = "PREFIX_OPERATOR" /\ node[2].value = "-"
  THEN Once(RunCode(run, node[3], v, x), LAMBDA argument :
         IF argument.threw \/ argument.full THEN argument
         ELSE KernelCall(argument, "negative", argument.val, NumberValue(NaN)))
  ELSE IF node[1] = "PREFIX_OPERATOR"
  THEN RunCode(run, node[3], v, x)
  ELSE RunCode(run, node[2], v, x)

\* const factorialValues, its first entries
SmallFactorial(i) == <<1, 1, 2, 6, 24>>[i + 1]
\* toValueAndDerivatives(s): coefficients[i] * factorial(i) for each i
SeriesDerivatives(coefficients) ==
  [i \in 1..Len(coefficients) |->
     NumMul(coefficients[i], N(SmallFactorial(i - 1)))]

\* wrappedFunc(x, seriesAPI): the generated code, then toValueAndDerivatives,
\* which throws a TypeError on a number (it has no coefficients)
WrappedFunc(P, mem, node, v, x) ==
  Once(RunCode([pool |-> P, mem |-> mem, threw |-> FALSE, full |-> FALSE,
                val |-> NumberValue(NaN)], node, v, x), LAMBDA run :
    IF run.threw \/ run.full THEN [run |-> run, res |-> <<>>]
    ELSE IF run.val.kind = "number"
    THEN [run |-> [run EXCEPT !.threw = TRUE], res |-> <<>>]
    ELSE [run |-> run, res |-> SeriesDerivatives(run.mem[run.val.b])])

\* the evaluator: seriesPool.trackAndReleaseAllocations(() => { res =
\* wrappedFunc(x, seriesAPI) }); return res.  When the callback throws, the
\* rest of trackAndReleaseAllocations is not run.
Evaluator(P, mem, node, v, x) ==
  Once(WrappedFunc(PoolBeginTracking(P), mem, node, v, x), LAMBDA body :
    [pool |-> IF body.run.threw \/ body.run.full THEN body.run.pool
              ELSE PoolEndTracking(body.run.pool),
     mem |-> body.run.mem,
     allocated |-> Range(body.run.pool.tracked),
     threw |-> body.run.threw,
     full |-> body.run.full,
     res |-> body.res])

\* no call has been made
NoCall ==
  [f |-> <<0, "">>, x |-> 0, status |-> "none", res |-> <<>>, allocated |-> {},
   constructedBefore |-> 0, returnedBefore |-> FALSE, raisedBefore |-> FALSE,
   resBefore |-> <<>>, reference |-> <<>>]

\* calc is the memory of the buffers, the number of calls made, the results
\* <<f, x, res>> of the first call of each function at each point that
\* returned, and the
\* call made last: its function, point, outcome, the buffers it allocated,
\* and, from before it, the number of buffers constructed, whether the
\* function had returned, whether a call had raised, and the first result of
\* the function at the point
InitCalls ==
  /\ kernel = "Series"
  /\ degree \in Degrees
  /\ pool = EmptyPool
  /\ scopes = 0
  /\ returned = <<>>
  /\ handed = <<>>
  /\ evalResult = <<>>
  /\ ParserIdle
  /\ calc = [mem |-> [b \in Ids |-> <<>>], calls |-> 0,
             first |-> {},
             last |-> NoCall]

\* the result recorded in first for the function f at the point x, <<>> if none
FirstResult(first, f, x) ==
  IF \E r \in first : r[1] = f /\ r[2] = x
  THEN (CHOOSE r \in first : r[1] = f /\ r[2] = x)[3]
  ELSE <<>>

\* f(x) for the function f compiled from CompiledExpressions(v)[e] with the
\* variable v; reference is what the same call of the function compiled with
\* the variable 'x' from the same expression written with x gives
CallCompiled(f, x) ==
  /\ calc.calls < MaxCalls
  /\ \E e \in {Evaluator(pool, calc.mem, CompiledExpressions(f[2])[f[1]], f[2], x)} :
     \E withX \in {Evaluator(pool, calc.mem, CompiledExpressions("x")[f[1]], "x", x)} :
       /\ ~e.full
       /\ pool' = e.pool
       /\ calc' =
            [mem |-> e.mem,
             calls |-> calc.calls + 1,
             first |-> IF ~e.threw /\ FirstResult(calc.first, f, x) = <<>>
                       THEN calc.first \cup {<<f, x, e.res>>}
                       ELSE calc.first,
             last |-> [f |-> f, x |-> x,
                       status |-> IF e.threw THEN "raised" ELSE "returned",
                       res |-> e.res,
                       allocated |-> e.allocated,
                       constructedBefore |-> Cardinality(Constructed(pool)),
                       returnedBefore |->
                         \E y \in CallPoints : FirstResult(calc.first, f, y) # <<>>,
                       raisedBefore |->
                         calc.last.raisedBefore \/ calc.last.status = "raised",
                       resBefore |-> FirstResult(calc.first, f, x),
                       reference |-> IF withX.threw THEN <<"raised">> ELSE withX.res]]
  /\ UNCHANGED <<kernel, degree, scopes, returned, handed, evalResult>>
  /\ UNCHANGED parserVars

NextCalls ==
  \/ \E f \in Functions : \E x \in CallPoints : CallCompiled(f, x)

\* a client that only calls compiled functions, at a constant degree
SpecCalls == InitCalls /\ [][NextCalls]_vars

\* C25: when the body of trackAndReleaseAllocations raises, afterwards the
\* pool is no longer tracking and every buffer allocated in the body is on
\* the free list.
ReleasedWhenBodyRaises ==
  calc.last.status = "raised" =>
    /\ ~pool.tracking
    /\ \A b \in calc.last.allocated : Count(pool.free, b) = 1

\* C26: the result of a compiled function does not depend on the name of
\* its variable: a call of the function compiled with the variable v returns
\* the vector (or raises as) the same call of the function compiled with 'x'
\* from the same expression written with x, for every name, 's' included.
ResultIndependentOfVariableName ==
  calc.last.status # "none" =>
    IF calc.last.status = "raised" THEN calc.last.reference = <<"raised">>
    ELSE calc.last.res = calc.last.reference
\* the names other than 's' give the result of 'x'
ResultIndependentOfOtherNames ==
  (calc.last.status # "none" /\ calc.last.f[2] # "s") =>
    IF calc.last.status = "raised" THEN calc.last.reference = <<"raised">>
    ELSE calc.last.res = calc.last.reference

\* C27: at a constant degree, once a compiled function has been called and
\* has returned normally, a later call of it constructs no new buffer.
LaterCallConstructsNothing ==
  (calc.last.status = "returned" /\ calc.last.returnedBefore) =>
    Cardinality(Constructed(pool)) = calc.last.constructedBefore

\* the same when no call made before has raised
LaterCallConstructsNothingUnlessRaised ==
  (calc.last.status = "returned" /\ calc.last.returnedBefore
     /\ ~calc.last.raisedBefore) =>
    Cardinality(Constructed(pool)) = calc.last.constructedBefore

\* C30: at a constant degree, two calls of the same compiled function at the
\* same point return identical vectors, whatever calls were made on the
\* shared pool in between.
SameCallSameResult ==
  (calc.last.status = "returned" /\ calc.last.resBefore # <<>>) =>
    calc.last.res = calc.last.resBefore
\* the same when every series has at least two coefficients
SameCallSameResultPositiveDegree ==
  (degree >= 1 /\ calc.last.status = "returned" /\ calc.last.resBefore # <<>>) =>
    calc.last.res = calc.last.resBefore

====
